---- MODULE Spec2Model ----
(***************************************************************************)
(* Model of the search/retrieval core of wheeldrop/logbook:                *)
(*   - SearchEngine (src/src/search/engine.ts): lazy tier-1 index build,   *)
(*     filtered and length-normalised search;                              *)
(*   - the logbook_read handler (src/unnamed/part_003): per-message query  *)
(*     matching, context windows, merge of windows.                        *)
(* An async method is cut into one action per await: between two awaits    *)
(* the JavaScript event loop runs the code atomically.                     *)
(***************************************************************************)
EXTENDS Integers, Sequences, FiniteSets, TLC

\* ------------------------------------------------------------------ bounds
\* search() calls issued in one behaviour
MaxCalls == 2
\* searchable documents one source yields
MaxDocs == 2

\* ------------------------------------------------------- values and helpers
\* an absent optional field (undefined)
Undefined == 0 - 2

\* the -1 of Array.prototype.findIndex
NotFound == 0 - 1

\* JavaScript truthiness of an optional number: undefined and 0 are falsy
Truthy(n) == n # Undefined /\ n # 0

Max(a, b) == IF a >= b THEN a ELSE b
Min(a, b) == IF a <= b THEN a ELSE b

\* Array.prototype.includes
InList(x, list) == \E i \in DOMAIN list : list[i] = x

\* the parsers handed to the constructor, in constructor order
Parsers == <<"claude", "codex">>

\* A string is the sequence of its characters.
UpperLetters ==
  << "A", "B", "C", "D", "E", "F", "G", "H", "I", "J", "K", "L", "M",
     "N", "O", "P", "Q", "R", "S", "T", "U", "V", "W", "X", "Y", "Z" >>

LowerLetters ==
  << "a", "b", "c", "d", "e", "f", "g", "h", "i", "j", "k", "l", "m",
     "n", "o", "p", "q", "r", "s", "t", "u", "v", "w", "x", "y", "z" >>

\* String.prototype.toLowerCase
LowerChar(ch) ==
  IF \E i \in DOMAIN UpperLetters : UpperLetters[i] = ch
  THEN LowerLetters[CHOOSE i \in DOMAIN UpperLetters : UpperLetters[i] = ch]
  ELSE ch

ToLowerCase(s) == SubSeq([i \in 1..Len(s) |-> LowerChar(s[i])], 1, Len(s))

\* String.prototype.includes: sub occurs in s as a contiguous substring
Includes(s, sub) ==
  \E i \in 0..(Len(s) - Len(sub)) : SubSeq(s, i + 1, i + Len(sub)) = sub

\* the queries of the model: "auth", "jwt", "ci" and the nonsense "zzqqxx999"
QueryAuth == << "a", "u", "t", "h" >>
QueryJwt == << "j", "w", "t" >>
QueryCi == << "c", "i" >>
QueryNonsense == << "z", "z", "q", "q", "x", "x", "9", "9", "9" >>

\* --------------------------------------------------------------- documents
\* A SearchableDocument.  text is represented by its length (textLen), by the
\* query tokens the full-text index finds in it (terms) and by the relevance
\* the full-text index gives it for such a token (raw).
Doc(id, agent, type, textLen, raw, timestamp, project, messageCount, terms) ==
  [id |-> id, agent |-> agent, type |-> type, textLen |-> textLen, raw |-> raw,
   timestamp |-> timestamp, project |-> project, messageCount |-> messageCount,
   terms |-> terms]

ProjApi == <<"A", "p", "i">>
ProjWeb == <<"W", "e", "b">>
NoProject == <<>>

\* The searchable documents of each parser, as its generator yields them when
\* it yields them all.  An id is the tuple of the parts the code joins with ":"
\* ("claude:memory:<path>").  A session may come twice under one id: as a
\* one-line history entry and as a full transcript.
HistoryDocs(name) ==
  IF name = "claude"
  THEN << Doc(<<"claude", "history", "s1">>, "claude", "conversation", 500, 3, 100,
              ProjApi, Undefined, { QueryAuth, QueryJwt }),
          Doc(<<"claude", "history", "s1">>, "claude", "conversation", 4000, 6, 100,
              ProjApi, 5, { QueryAuth, QueryJwt, QueryCi }) >>
  ELSE << Doc(<<"codex", "history", "s3">>, "codex", "conversation", 400, 3, 200,
              ProjWeb, 1, { QueryAuth }),
          Doc(<<"claude", "history", "s1">>, "codex", "conversation", 600, 4, Undefined,
              NoProject, 10, { QueryAuth, QueryCi }) >>

\* the searchable documents a parser may yield
HistoryPool(name) == { HistoryDocs(name)[i] : i \in DOMAIN HistoryDocs(name) }

\* getMemoryFiles(): {path, content} of each memory file of a parser
MemoryFiles(name) ==
  IF name = "claude"
  THEN << [path |-> "CLAUDE.md", textLen |-> 1000, raw |-> 4, terms |-> { QueryAuth }] >>
  ELSE << >>

\* getPlanFiles()
PlanFiles(name) ==
  IF name = "codex"
  THEN << [path |-> "plans/a.md", textLen |-> 4000, raw |-> 3, terms |-> { QueryAuth, QueryCi }] >>
  ELSE << >>

\* -------------------------------------------- tokenizer and edit distance
\* TOKENIZER_RE = /[\s\-_./\\:,;()[\]{}<>'"]+/ : the characters of the class
IsSeparator(ch) ==
  ch \in { " ", "\t", "\n", "\r", "-", "_", ".", "/", "\\", ":", ",", ";",
           "(", ")", "[", "]", "{", "}", "<", ">", "'", "\"" }

\* the last index of the run of non-separators that starts at i (i - 1 when
\* there is none)
PieceEnd(s, i) ==
  IF \E j \in i..Len(s) : IsSeparator(s[j])
  THEN (CHOOSE j \in i..Len(s) :
          IsSeparator(s[j]) /\ \A k \in i..(j - 1) : ~IsSeparator(s[k])) - 1
  ELSE Len(s)

\* the last index of the run of separators that starts at i
SeparatorsEnd(s, i) ==
  IF \E j \in i..Len(s) : ~IsSeparator(s[j])
  THEN (CHOOSE j \in i..Len(s) :
          ~IsSeparator(s[j]) /\ \A k \in i..(j - 1) : IsSeparator(s[k])) - 1
  ELSE Len(s)

\* text.split(TOKENIZER_RE): the pieces between the runs of separators; a
\* separator at either end leaves an empty piece there
RECURSIVE SplitFrom(_, _)
SplitFrom(s, i) ==
  LET e == PieceEnd(s, i)
  IN IF e = Len(s) THEN << SubSeq(s, i, e) >>
     ELSE << SubSeq(s, i, e) >> \o SplitFrom(s, SeparatorsEnd(s, e + 1) + 1)

Split(s) == SplitFrom(s, 1)

\* tokenize(text): lowercase, split, drop the tokens of length <= 1
Tokenize(text) ==
  LET long(t) == Len(t) > 1
  IN SelectSeq(Split(ToLowerCase(text)), long)

Abs(n) == IF n < 0 THEN 0 - n ELSE n

\* the inner loop of levenshteinDistance for row i, from column j on: row holds
\* dp[0..n] at positions 1..n+1, prev is the old dp[j-1]
RECURSIVE LevColumns(_, _, _, _, _, _)
LevColumns(a, b, i, j, row, prev) ==
  IF j > Len(b) THEN row
  ELSE LET temp == row[j + 1]
           cell == IF a[i] = b[j] THEN prev
                   ELSE 1 + Min(prev, Min(row[j + 1], row[j]))
       IN LevColumns(a, b, i, j + 1, [row EXCEPT ![j + 1] = cell], temp)

\* the outer loop of levenshteinDistance from row i on
RECURSIVE LevRows(_, _, _, _)
LevRows(a, b, i, row) ==
  IF i > Len(a) THEN row
  ELSE LevRows(a, b, i + 1, LevColumns(a, b, i, 1, [row EXCEPT ![1] = i], row[1]))

\* a distance that compares position by position and adds the length difference
PositionalDistance(a, b) ==
  Cardinality({ i \in 1..Min(Len(a), Len(b)) : a[i] # b[i] }) + Abs(Len(a) - Len(b))

\* levenshteinDistance(a, b): single-row dynamic program
LevenshteinDistance(a, b) ==
  LevRows(a, b, 1, [j \in 1..(Len(b) + 1) |-> j - 1])[Len(b) + 1]

\* the document buildTier1 makes of a memory file
MemoryDoc(name, mem) ==
  Doc(<<name, "memory", mem.path>>, name, "memory", mem.textLen, mem.raw,
      Undefined, NoProject, Undefined, mem.terms)

\* the document buildTier1 makes of a plan file
PlanDoc(name, plan) ==
  Doc(<<name, "plan", plan.path>>, name, "plan", plan.textLen, plan.raw,
      Undefined, NoProject, Undefined, plan.terms)

\* every sequence over S of length at most n
RECURSIVE SeqsUpTo(_, _)
SeqsUpTo(S, n) ==
  IF n = 0 THEN { <<>> }
  ELSE LET shorter == SeqsUpTo(S, n - 1)
       IN shorter \cup { Append(s, x) : s \in { t \in shorter : Len(t) = n - 1 }, x \in S }

\* what can go wrong in one source during a build
Faults ==
  { "none", "unavailable", "availThrows", "docsThrowFirst", "docsThrowMid", "docsThrowLast",
    "memThrows", "planThrows" }

\* one source: the documents its generator yields, in order, and its fault
Source(docs, fault) == [docs |-> docs, fault |-> fault]

\* the generator throws once it has yielded k documents
DocsThrowAt(s, k) ==
  \/ s.fault = "docsThrowFirst" /\ k = 0
  \/ s.fault = "docsThrowMid" /\ k = 1
  \/ s.fault = "docsThrowLast" /\ k = Len(s.docs)

\* ------------------------------------------------------------------- state
VARIABLES
  src,          \* the sources behind the parsers (environment; fixed in a behaviour)
  tier1Index,   \* SearchEngine.tier1Index: [isNull, docs]
  tier1Docs,    \* SearchEngine.tier1Docs
  tier1Built,   \* SearchEngine.tier1Built
  calls,        \* per search() call: where it is suspended and buildTier1's locals
  out,          \* the result list a search() call is returning to its caller
  srcCalls,     \* history: how often each method of each source was invoked
  builds,       \* history: how often buildTier1 was entered
  assigns,      \* history: how often buildTier1 assigned the index and the list
  session,      \* logbook_read: what findParser and getSession give for the request
  readOut,      \* logbook_read: the response of the handler
  lev           \* levenshteinDistance: the arguments of a call and what it returns

engineVars == << src, tier1Index, tier1Docs, tier1Built, calls, out, srcCalls, builds, assigns >>

readVars == << session, readOut >>

vars == << engineVars, readVars, lev >>

Calls == 1..MaxCalls

NullIndex == [isNull |-> TRUE, docs |-> << >>]

IdleCall == [pc |-> "idle", p |-> 0, k |-> 0, docs |-> << >>]

NoOut == [call |-> 0]

NoSrcCalls ==
  [isAvailable |-> 0, getSearchableDocuments |-> 0, getMemoryFiles |-> 0,
   getPlanFiles |-> 0]

\* the fields of a fresh SearchEngine (no source method is called by the constructor)
InitEngine ==
  /\ tier1Index = NullIndex
  /\ tier1Docs = << >>
  /\ tier1Built = FALSE
  /\ calls = [c \in Calls |-> IdleCall]
  /\ out = NoOut
  /\ srcCalls = [i \in DOMAIN Parsers |-> NoSrcCalls]
  /\ builds = 0
  /\ assigns = 0

\* no logbook_read request is in progress
NoSession == [lookup |-> "none", messages |-> << >>]

NoReadOut == [kind |-> "none"]

\* no call of levenshteinDistance is observed
NoLev == [a |-> << >>, b |-> << >>, dist |-> Undefined]

NoRead ==
  /\ session = NoSession
  /\ readOut = NoReadOut
  /\ lev = NoLev

\* ------------------------------------------------- snippet extraction
MAX_MATCH_POSITIONS == 100

\* the default of extractSnippets' parameter contextChars
ContextChars == 150

\* options.maxSnippets ?? 3
DefaultMaxSnippets == 3

\* String.prototype.slice(start, end) for 0 <= start
StrSlice(s, start, end) == SubSeq(s, start + 1, Min(end, Len(s)))

\* String.prototype.indexOf(word, from): the least offset >= from, or -1
IndexOf(text, word, from) ==
  LET at(i) == \A k \in 1..Len(word) : text[i + k] = word[k]
      last == Len(text) - Len(word)
  IN IF \E i \in from..last : at(i)
     THEN CHOOSE i \in from..last : at(i) /\ \A j \in from..(i - 1) : ~at(j)
     ELSE NotFound

IsSpace(ch) == ch \in { " ", "\t", "\n", "\r" }

\* String.prototype.trim
Trim(s) ==
  LET inner == { i \in DOMAIN s : ~IsSpace(s[i]) }
  IN IF inner = {} THEN << >>
     ELSE SubSeq(s, CHOOSE i \in inner : \A j \in 1..(i - 1) : IsSpace(s[j]),
                    CHOOSE i \in inner : \A j \in (i + 1)..Len(s) : IsSpace(s[j]))

Ellipsis == << ".", ".", "." >>

\* findAllMatchPositions: positions in push order, and positionTerms
NoPositions == [positions |-> << >>, terms |-> << >>]

\* positionTerms.get(pos): the terms recorded at pos, << >> when there are none
TermsAt(found, pos) ==
  IF \E k \in DOMAIN found.terms : found.terms[k].pos = pos
  THEN found.terms[CHOOSE k \in DOMAIN found.terms : found.terms[k].pos = pos].terms
  ELSE << >>

\* addPosition(pos, term)
AddPosition(found, pos, term) ==
  [positions |-> Append(found.positions, pos),
   terms |->
     IF \E k \in DOMAIN found.terms : found.terms[k].pos = pos
     THEN [k \in DOMAIN found.terms |->
             IF found.terms[k].pos = pos /\ ~InList(term, found.terms[k].terms)
             THEN [pos |-> pos, terms |-> Append(found.terms[k].terms, term)]
             ELSE found.terms[k]]
     ELSE Append(found.terms, [pos |-> pos, terms |-> << term >>])]

\* phase 1, one word: one pass of the while loop over indexOf; done records
\* that the loop has been left
ScanStep(s, lowerText, word) ==
  IF s.done \/ ~(Len(s.found.positions) < MAX_MATCH_POSITIONS)
  THEN [s EXCEPT !.done = TRUE]
  ELSE LET pos == IndexOf(lowerText, word, s.searchFrom)
       IN IF pos = NotFound THEN [s EXCEPT !.done = TRUE]
          ELSE [found |-> AddPosition(s.found, pos, word),
                searchFrom |-> pos + Len(word), done |-> FALSE]

\* n passes of the loop, one after the other
RECURSIVE ScanSteps(_, _, _, _)
ScanSteps(s, lowerText, word, n) ==
  IF s.done \/ n = 0 THEN s
  ELSE IF n = 1 THEN ScanStep(s, lowerText, word)
  ELSE ScanSteps(ScanSteps(s, lowerText, word, n \div 2), lowerText, word, n - (n \div 2))

\* phase 1, one word: the while loop; every pass but the last pushes a
\* position, so the loop is left within MAX_MATCH_POSITIONS + 1 passes
ExactScan(found, lowerText, word, searchFrom) ==
  ScanSteps([found |-> found, searchFrom |-> searchFrom, done |-> FALSE],
            lowerText, word, MAX_MATCH_POSITIONS + 1).found

\* phase 1: for (const word of queryWords)
RECURSIVE ExactPhase(_, _, _, _)
ExactPhase(found, lowerText, queryWords, k) ==
  IF k > Len(queryWords) THEN found
  ELSE ExactPhase(ExactScan(found, lowerText, queryWords[k], 0), lowerText, queryWords, k + 1)

\* phase 2, one text word: for (const qw of queryWords)
RECURSIVE FuzzyWords(_, _, _, _, _)
FuzzyWords(found, tw, twStart, queryWords, k) ==
  IF k > Len(queryWords) THEN found
  ELSE LET qw == queryWords[k]
           hit == /\ ~(Abs(Len(tw) - Len(qw)) > 2)
                  /\ LevenshteinDistance(tw, qw) <= 2
       IN FuzzyWords(IF hit THEN AddPosition(found, twStart, qw) ELSE found,
                     tw, twStart, queryWords, k + 1)

\* phase 2: for (const tw of textWords) with the cursor
RECURSIVE FuzzyPhase(_, _, _, _, _, _)
FuzzyPhase(found, lowerText, textWords, k, cursor, queryWords) ==
  IF k > Len(textWords) \/ Len(found.positions) >= MAX_MATCH_POSITIONS THEN found
  ELSE LET tw == textWords[k]
           twStart == IndexOf(lowerText, tw, cursor)
       IN IF twStart = NotFound
          THEN FuzzyPhase(found, lowerText, textWords, k + 1, cursor, queryWords)
          ELSE FuzzyPhase(FuzzyWords(found, tw, twStart, queryWords, 1), lowerText,
                          textWords, k + 1, twStart + Len(tw), queryWords)

\* [...new Set(positions)].sort((a, b) => a - b)
SortedSet(S) ==
  LET rank(x) == Cardinality({ y \in S : y < x })
      n == Cardinality(S)
  IN SubSeq([i \in 1..n |-> CHOOSE x \in S : rank(x) = i - 1], 1, n)

\* a scan whose fuzzy phase runs after the exact phase in every case
FindAllMatchPositionsBothPhases(lowerText, queryWords) ==
  LET exact == ExactPhase(NoPositions, lowerText, queryWords, 1)
      found == FuzzyPhase(exact, lowerText, Split(lowerText), 1, 0, queryWords)
  IN [positions |-> SortedSet({ found.positions[k] : k \in DOMAIN found.positions }),
      matchCount |-> Len(found.positions),
      positionTerms |-> found.terms]

\* a matchCount that counts each offset once
FindAllMatchPositionsUnique(lowerText, queryWords) ==
  LET exact == ExactPhase(NoPositions, lowerText, queryWords, 1)
      found == IF Len(exact.positions) = 0
               THEN FuzzyPhase(exact, lowerText, Split(lowerText), 1, 0, queryWords)
               ELSE exact
      unique == SortedSet({ found.positions[k] : k \in DOMAIN found.positions })
  IN [positions |-> unique, matchCount |-> Len(unique), positionTerms |-> found.terms]

\* findAllMatchPositions(lowerText, queryWords)
FindAllMatchPositions(lowerText, queryWords) ==
  LET exact == ExactPhase(NoPositions, lowerText, queryWords, 1)
      found == IF Len(exact.positions) = 0
               THEN FuzzyPhase(exact, lowerText, Split(lowerText), 1, 0, queryWords)
               ELSE exact
  IN [positions |-> SortedSet({ found.positions[k] : k \in DOMAIN found.positions }),
      matchCount |-> Len(found.positions),
      positionTerms |-> found.terms]

\* a choice of centers that takes every position until maxSnippets are chosen
SelectPositionsAnyDistance(positions, k, selected, maxSnippets, minSeparation) ==
  SubSeq(positions, 1, Min(Len(positions), Max(1, maxSnippets)))

\* the greedy choice of snippet centers: for (const pos of positions), from
\* the k-th position on; the loop passes over the positions closer than
\* minSeparation to the last selected one (lastSelected starts at -Infinity)
RECURSIVE SelectPositions(_, _, _, _, _)
SelectPositions(positions, k, selected, maxSnippets, minSeparation) ==
  LET far == { j \in k..Len(positions) :
                 \/ selected = << >>
                 \/ positions[j] - selected[Len(selected)] >= minSeparation }
  IN IF far = {} THEN selected
     ELSE LET j == CHOOSE j \in far : \A i \in far : j <= i
              pushed == Append(selected, positions[j])
          IN IF Len(pushed) >= maxSnippets THEN pushed
             ELSE SelectPositions(positions, j + 1, pushed, maxSnippets, minSeparation)

\* matchTerms of a snippet: the query words its text includes, then the terms
\* recorded at its position that are not among them yet
RECURSIVE AddMissing(_, _, _)
AddMissing(matchTerms, terms, k) ==
  IF k > Len(terms) THEN matchTerms
  ELSE AddMissing(IF InList(terms[k], matchTerms) THEN matchTerms
                  ELSE Append(matchTerms, terms[k]),
                  terms, k + 1)

\* the snippet built at one selected position (pos records its center)
Snippet(text, pos, contextChars, queryWords, found) ==
  LET start == Max(0, pos - contextChars)
      end == Min(Len(text), pos + contextChars)
      body == Trim(StrSlice(text, start, end))
      snippetText == (IF start > 0 THEN Ellipsis ELSE << >>) \o body
                     \o (IF end < Len(text) THEN Ellipsis ELSE << >>)
      inSnippet(w) == Includes(ToLowerCase(snippetText), w)
  IN [text |-> snippetText,
      matchTerms |-> AddMissing(SelectSeq(queryWords, inSnippet), TermsAt(found, pos), 1),
      pos |-> pos]

\* the fallback snippet: the start of the text
FallbackSnippet(text, contextChars) ==
  [text |-> Trim(StrSlice(text, 0, contextChars * 2))
            \o (IF Len(text) > contextChars * 2 THEN Ellipsis ELSE << >>),
   matchTerms |-> << >>,
   pos |-> NotFound]

\* extractSnippets(text, query, maxSnippets, contextChars); positions records
\* the sorted unique positions the greedy choice reads
ExtractSnippets(text, query, maxSnippets, contextChars) ==
  IF Len(text) = 0 THEN [snippets |-> << >>, matchCount |-> 0, positions |-> << >>]
  ELSE LET queryWords == Tokenize(query)
           all == FindAllMatchPositions(ToLowerCase(text), queryWords)
           found == [terms |-> all.positionTerms]
           selectedPositions ==
             SelectPositions(all.positions, 1, << >>, maxSnippets, contextChars * 2)
       IN IF Len(all.positions) = 0
          THEN [snippets |-> << FallbackSnippet(text, contextChars) >>, matchCount |-> 0,
                positions |-> << >>]
          ELSE [snippets |-> [n \in DOMAIN selectedPositions |->
                                Snippet(text, selectedPositions[n], contextChars,
                                        queryWords, found)],
                matchCount |-> all.matchCount,
                positions |-> all.positions]

\* ------------------------------------------------------ search(): the query
\* SearchOptions.  agent is the list of agent names, or <<"all">> for "all" or
\* unset; type is the list of allowed types, << >> when unset; project is
\* << >> when unset; dateFrom, dateTo (epoch milliseconds), minMessages and
\* limit are Undefined when unset.
DefaultLimit == 20

SearchOptions(query, agent, dateFrom, dateTo, type, project, minMessages, limit, maxSnippets) ==
  [query |-> query, agent |-> agent, dateFrom |-> dateFrom, dateTo |-> dateTo,
   type |-> type, project |-> project, minMessages |-> minMessages, limit |-> limit,
   maxSnippets |-> maxSnippets]

\* a score is the exact quotient num / den (den > 0)
Score(num, den) == [num |-> num, den |-> den]

ScoreLess(a, b) == a.num * b.den < b.num * a.den

ScoreGeq(a, b) == ~ScoreLess(a, b)

\* Array.prototype.sort with comparator (a, b) => b.score - a.score: stable,
\* descending by score
RECURSIVE InsertByScore(_, _)
InsertByScore(x, s) ==
  IF s = << >> THEN << x >>
  ELSE IF ScoreLess(Head(s).score, x.score) THEN << x >> \o s
  ELSE << Head(s) >> \o InsertByScore(x, Tail(s))

RECURSIVE SortByScore(_)
SortByScore(s) ==
  IF s = << >> THEN << >>
  ELSE InsertByScore(s[Len(s)], SortByScore(SubSeq(s, 1, Len(s) - 1)))

\* one hit of the full-text index: the id, the raw relevance and the stored fields
Hit(d) ==
  [id |-> d.id, score |-> Score(d.raw, 1), agent |-> d.agent,
   timestamp |-> d.timestamp, project |-> d.project, type |-> d.type]

\* index.search(query, {filter}): the indexed documents that hold the query
\* token and pass the agent filter, best raw relevance first
IndexSearch(index, o) ==
  LET pass(d) ==
        /\ o.query \in d.terms
        /\ (o.agent # << "all" >> => InList(d.agent, o.agent))
      found == SelectSeq(index.docs, pass)
  IN SortByScore([i \in DOMAIN found |-> Hit(found[i])])

\* post-filter by date range
FilterDate(results, o) ==
  LET keep(r) ==
        \/ ~Truthy(r.timestamp)
        \/ /\ ~(Truthy(o.dateFrom) /\ r.timestamp < o.dateFrom)
           /\ ~(Truthy(o.dateTo) /\ r.timestamp > o.dateTo)
  IN IF o.dateFrom # Undefined \/ o.dateTo # Undefined
     THEN SelectSeq(results, keep)
     ELSE results

\* a type filter that lets every hit through
FilterTypeNone(results, o) == results

\* post-filter by document type (the stored type is present on every hit)
FilterType(results, o) ==
  LET keep(r) == InList(r.type, o.type)
  IN IF o.type # << >> THEN SelectSeq(results, keep) ELSE results

\* post-filter by project substring
FilterProject(results, o) ==
  LET keep(r) ==
        r.project = << >> \/ Includes(ToLowerCase(r.project), ToLowerCase(o.project))
  IN IF o.project # << >> THEN SelectSeq(results, keep) ELSE results

\* this.tier1Docs.find((d) => d.id === id): the index of the first such
\* document, 0 when there is none
FindDoc(docs, id) ==
  IF \E i \in DOMAIN docs : docs[i].id = id
  THEN CHOOSE i \in DOMAIN docs : docs[i].id = id /\ \A j \in 1..(i - 1) : docs[j].id # id
  ELSE 0

\* a filter that drops the documents without messageCount
FilterMinMessagesStrict(results, docs, o) ==
  LET mc(r) == LET i == FindDoc(docs, r.id)
               IN IF i = 0 THEN Undefined ELSE docs[i].messageCount
      keep(r) == LET n == mc(r) IN n # Undefined /\ n >= o.minMessages
  IN IF Truthy(o.minMessages) THEN SelectSeq(results, keep) ELSE results

\* post-filter by minimum message count
FilterMinMessages(results, docs, o) ==
  LET mc(r) == LET i == FindDoc(docs, r.id)
               IN IF i = 0 THEN Undefined ELSE docs[i].messageCount
      keep(r) == LET n == mc(r) IN n = Undefined \/ n >= o.minMessages
  IN IF Truthy(o.minMessages) THEN SelectSeq(results, keep) ELSE results

\* round(1000 * Math.log2(textLen / 500)) at the text lengths of the model
Log2Milli(textLen) ==
  CASE textLen = 600 -> 263
    [] textLen = 1000 -> 1000
    [] textLen = 4000 -> 3000
    [] textLen = 603 -> 270
    [] textLen = 604 -> 273
    [] textLen = 904 -> 854

\* 1000 * lengthPenalty
LengthPenalty(textLen) == IF textLen > 500 THEN Log2Milli(textLen) ELSE 0

\* mutant: the penalty multiplies the score
FinalScoreBoost(raw, textLen) ==
  Score(raw.num * (2000 + LengthPenalty(textLen)), raw.den * 2000)

\* r.score / (1 + lengthPenalty * 0.5)
FinalScore(raw, textLen) == Score(raw.num * 2000, raw.den * (2000 + LengthPenalty(textLen)))

\* a snippet list whose first text is not copied to matchedText
SnippetFieldsNoText(text, query, maxSnippets) ==
  LET e == ExtractSnippets(text, query,
                           IF maxSnippets = Undefined THEN DefaultMaxSnippets ELSE maxSnippets,
                           ContextChars)
  IN [snippets |-> e.snippets, matchCount |-> e.matchCount, matchedText |-> << >>,
      positions |-> e.positions]

\* snippets, matchCount and matchedText of a result (lines 92, 102-117);
\* positions records the match positions extractSnippets chose from
SnippetFields(text, query, maxSnippets) ==
  LET e == ExtractSnippets(text, query,
                           IF maxSnippets = Undefined THEN DefaultMaxSnippets ELSE maxSnippets,
                           ContextChars)
  IN [snippets |-> e.snippets, matchCount |-> e.matchCount,
      matchedText |-> IF Len(e.snippets) > 0 THEN e.snippets[1].text ELSE << >>,
      positions |-> e.positions]

\* the document carries its text (the others carry its length only, and the
\* snippets of their results are left out)
HasText(d) == "text" \in DOMAIN d

\* the SearchResult made of one hit (id is kept to tell results apart; raw and
\* textLen record what the score was computed from)
MapResult(r, docs, o) ==
  LET i == FindDoc(docs, r.id)
      textLen == IF i = 0 THEN 0 ELSE docs[i].textLen
      fields == [id |-> r.id, agent |-> r.agent, type |-> r.type, timestamp |-> r.timestamp,
                 project |-> r.project, raw |-> r.score, textLen |-> textLen,
                 score |-> FinalScore(r.score, textLen),
                 messageCount |-> IF i = 0 THEN Undefined ELSE docs[i].messageCount]
  IN IF i = 0 THEN fields @@ SnippetFields(<< >>, o.query, o.maxSnippets)
     ELSE IF HasText(docs[i])
     THEN fields @@ SnippetFields(docs[i].text, o.query, o.maxSnippets)
     ELSE fields

\* the hits that pass every filter, in the order of the index
Surviving(index, docs, o) ==
  FilterMinMessages(FilterProject(FilterType(FilterDate(IndexSearch(index, o), o), o), o),
                    docs, o)

\* mapped: every surviving hit as a SearchResult
Mapped(index, docs, o) ==
  LET results == Surviving(index, docs, o)
  IN [i \in DOMAIN results |-> MapResult(results[i], docs, o)]

\* mutant: the re-sort after the length penalty is left out
SortMappedMissing(mapped) == mapped

\* mapped.sort((a, b) => b.score - a.score)
SortMapped(mapped) == SortByScore(mapped)

\* mapped.slice(0, limit)
Truncate(results, o) ==
  SubSeq(results, 1, Min(Len(results), IF o.limit = Undefined THEN DefaultLimit ELSE o.limit))

\* mutant: the list is cut to limit before it is re-sorted
SearchResultsSliceFirst(index, docs, o) == SortMapped(Truncate(Mapped(index, docs, o), o))

\* search() from line 30 on: what the call returns, given the index it reads
SearchResults(index, docs, o) == Truncate(SortMapped(Mapped(index, docs, o)), o)

\* ---------------------------------------------------- buildTier1(): the build
\* docs.filter((d) => { if (seen.has(d.id)) return false; seen.add(d.id); return true })
RECURSIVE DedupFrom(_, _)
DedupFrom(docs, seen) ==
  IF docs = << >> THEN << >>
  ELSE IF Head(docs).id \in seen THEN DedupFrom(Tail(docs), seen)
  ELSE << Head(docs) >> \o DedupFrom(Tail(docs), seen \cup { Head(docs).id })

\* mutant: the last document of each id is kept (a map keyed by id, overwritten)
RECURSIVE DedupKeepsLast(_)
DedupKeepsLast(docs) ==
  IF docs = << >> THEN << >>
  ELSE IF \E j \in 2..Len(docs) : docs[j].id = Head(docs).id
  THEN DedupKeepsLast(Tail(docs))
  ELSE << Head(docs) >> \o DedupKeepsLast(Tail(docs))

\* Deduplicate by id
Dedup(docs) == DedupFrom(docs, {})

Bump(i, method) ==
  [srcCalls EXCEPT ![i][method] = @ + 1]

\* a build that publishes the index and the flag and leaves the document list
FinishBuildIndexOnly(c, docs, counts) ==
  /\ tier1Index' = [isNull |-> FALSE, docs |-> Dedup(docs)]
  /\ UNCHANGED tier1Docs
  /\ tier1Built' = TRUE
  /\ assigns' = assigns + 1
  /\ srcCalls' = counts
  /\ calls' = [calls EXCEPT ![c] = [pc |-> "resume", p |-> 0, k |-> 0, docs |-> << >>]]

\* mutant: the build forgets to set tier1Built
FinishBuildNoFlag(c, docs, counts) ==
  /\ tier1Index' = [isNull |-> FALSE, docs |-> Dedup(docs)]
  /\ tier1Docs' = Dedup(docs)
  /\ UNCHANGED tier1Built
  /\ assigns' = assigns + 1
  /\ srcCalls' = counts
  /\ calls' = [calls EXCEPT ![c] = [pc |-> "resume", p |-> 0, k |-> 0, docs |-> << >>]]

\* the end of buildTier1 (lines 180-191): dedup, addAll, the three assignments;
\* the caller's await resumes later
FinishBuild(c, docs, counts) ==
  /\ tier1Index' = [isNull |-> FALSE, docs |-> Dedup(docs)]
  /\ tier1Docs' = Dedup(docs)
  /\ tier1Built' = TRUE
  /\ assigns' = assigns + 1
  /\ srcCalls' = counts
  /\ calls' = [calls EXCEPT ![c] = [pc |-> "resume", p |-> 0, k |-> 0, docs |-> << >>]]

\* the head of the loop over the parsers for parser number i: the loop ends and
\* the build finishes, or isAvailable() of that parser is called and awaited
NextParser(c, i, docs, counts) ==
  IF i > Len(Parsers)
  THEN FinishBuild(c, docs, counts)
  ELSE /\ calls' = [calls EXCEPT ![c] = [pc |-> "avail", p |-> i, k |-> 0, docs |-> docs]]
       /\ srcCalls' = [counts EXCEPT ![i].isAvailable = @ + 1]
       /\ UNCHANGED << tier1Index, tier1Docs, tier1Built, assigns >>

\* the call returns its result list: search() from line 30 on
Respond(c, o) ==
  IF tier1Index.isNull
  THEN /\ calls' = [calls EXCEPT ![c] = [IdleCall EXCEPT !.pc = "rejected"]]
       /\ UNCHANGED out
  ELSE /\ calls' = [calls EXCEPT ![c] = [IdleCall EXCEPT !.pc = "returning"]]
       /\ out' = [call |-> c, options |-> o,
                  results |-> SearchResults(tier1Index, tier1Docs, o)]

\* search() is called: with the index built it answers at once, otherwise it
\* enters buildTier1 and runs it up to its first await
SearchStart(c, o) ==
  /\ calls[c].pc = "idle"
  /\ UNCHANGED << src, readVars, lev >>
  /\ IF tier1Built
     THEN /\ out = NoOut
          /\ Respond(c, o)
          /\ UNCHANGED << tier1Index, tier1Docs, tier1Built, srcCalls, builds, assigns >>
     ELSE /\ builds' = builds + 1
          /\ NextParser(c, 1, << >>, srcCalls)
          /\ UNCHANGED out

\* await parser.isAvailable() resumes
AvailResolve(c) ==
  LET i == calls[c].p
      docs == calls[c].docs
  IN /\ calls[c].pc = "avail"
     /\ UNCHANGED << src, out, builds, readVars, lev >>
     /\ IF src[i].fault = "availThrows"
        THEN \* not inside the try: buildTier1 and search() reject
             /\ calls' = [calls EXCEPT ![c] = [IdleCall EXCEPT !.pc = "rejected"]]
             /\ UNCHANGED << tier1Index, tier1Docs, tier1Built, srcCalls, assigns >>
        ELSE IF src[i].fault = "unavailable"
        THEN NextParser(c, i + 1, docs, srcCalls)
        ELSE \* getSearchableDocuments() is called and its first item awaited
             /\ calls' = [calls EXCEPT ![c].pc = "docs"]
             /\ srcCalls' = Bump(i, "getSearchableDocuments")
             /\ UNCHANGED << tier1Index, tier1Docs, tier1Built, assigns >>

\* a build that drops what a source has yielded when its generator throws
DocsStepRollback(c) ==
  LET i == calls[c].p
      k == calls[c].k
      docs == calls[c].docs
  IN /\ calls[c].pc = "docs"
     /\ UNCHANGED << src, out, builds, readVars, lev >>
     /\ IF DocsThrowAt(src[i], k)
        THEN NextParser(c, i + 1, SubSeq(docs, 1, Len(docs) - k), srcCalls)
        ELSE IF k < Len(src[i].docs)
        THEN /\ calls' = [calls EXCEPT ![c].k = k + 1,
                                       ![c].docs = Append(docs, src[i].docs[k + 1])]
             /\ UNCHANGED << tier1Index, tier1Docs, tier1Built, srcCalls, assigns >>
        ELSE /\ calls' = [calls EXCEPT ![c].pc = "mem"]
             /\ srcCalls' = Bump(i, "getMemoryFiles")
             /\ UNCHANGED << tier1Index, tier1Docs, tier1Built, assigns >>

\* mutant: the for await loop is outside the try, a throw of the generator
\* rejects buildTier1
DocsStepUncaught(c) ==
  LET i == calls[c].p
      k == calls[c].k
      docs == calls[c].docs
  IN /\ calls[c].pc = "docs"
     /\ UNCHANGED << src, out, builds, readVars, lev >>
     /\ IF DocsThrowAt(src[i], k)
        THEN /\ calls' = [calls EXCEPT ![c] = [IdleCall EXCEPT !.pc = "rejected"]]
             /\ UNCHANGED << tier1Index, tier1Docs, tier1Built, srcCalls, assigns >>
        ELSE IF k < Len(src[i].docs)
        THEN /\ calls' = [calls EXCEPT ![c].k = k + 1,
                                       ![c].docs = Append(docs, src[i].docs[k + 1])]
             /\ UNCHANGED << tier1Index, tier1Docs, tier1Built, srcCalls, assigns >>
        ELSE /\ calls' = [calls EXCEPT ![c].pc = "mem"]
             /\ srcCalls' = Bump(i, "getMemoryFiles")
             /\ UNCHANGED << tier1Index, tier1Docs, tier1Built, assigns >>

\* for await resumes: the generator yields a document, ends, or throws
DocsStep(c) ==
  LET i == calls[c].p
      k == calls[c].k
      docs == calls[c].docs
  IN /\ calls[c].pc = "docs"
     /\ UNCHANGED << src, out, builds, readVars, lev >>
     /\ IF DocsThrowAt(src[i], k)
        THEN NextParser(c, i + 1, docs, srcCalls)
        ELSE IF k < Len(src[i].docs)
        THEN /\ calls' = [calls EXCEPT ![c].k = k + 1,
                                       ![c].docs = Append(docs, src[i].docs[k + 1])]
             /\ UNCHANGED << tier1Index, tier1Docs, tier1Built, srcCalls, assigns >>
        ELSE \* getMemoryFiles() is called and awaited
             /\ calls' = [calls EXCEPT ![c].pc = "mem"]
             /\ srcCalls' = Bump(i, "getMemoryFiles")
             /\ UNCHANGED << tier1Index, tier1Docs, tier1Built, assigns >>

\* await parser.getMemoryFiles() resumes
MemResolve(c) ==
  LET i == calls[c].p
      docs == calls[c].docs
      mems == MemoryFiles(Parsers[i])
  IN /\ calls[c].pc = "mem"
     /\ UNCHANGED << src, out, builds, readVars, lev >>
     /\ IF src[i].fault = "memThrows"
        THEN NextParser(c, i + 1, docs, srcCalls)
        ELSE \* the memory documents are pushed; getPlanFiles() is called and awaited
             /\ calls' = [calls EXCEPT
                            ![c].pc = "plan",
                            ![c].docs = docs \o [n \in DOMAIN mems |-> MemoryDoc(Parsers[i], mems[n])]]
             /\ srcCalls' = Bump(i, "getPlanFiles")
             /\ UNCHANGED << tier1Index, tier1Docs, tier1Built, assigns >>

\* await parser.getPlanFiles() resumes
PlanResolve(c) ==
  LET i == calls[c].p
      docs == calls[c].docs
      plans == PlanFiles(Parsers[i])
  IN /\ calls[c].pc = "plan"
     /\ UNCHANGED << src, out, builds, readVars, lev >>
     /\ IF src[i].fault = "planThrows"
        THEN NextParser(c, i + 1, docs, srcCalls)
        ELSE NextParser(c, i + 1,
                        docs \o [n \in DOMAIN plans |-> PlanDoc(Parsers[i], plans[n])],
                        srcCalls)

\* await this.buildTier1() resumes: the rest of search() runs
SearchResume(c, o) ==
  /\ calls[c].pc = "resume"
  /\ out = NoOut
  /\ Respond(c, o)
  /\ UNCHANGED << src, tier1Index, tier1Docs, tier1Built, srcCalls, builds, assigns, readVars, lev >>

\* the caller of search() receives the result list
Deliver(c) ==
  /\ calls[c].pc = "returning"
  /\ out.call = c
  /\ out' = NoOut
  /\ calls' = [calls EXCEPT ![c].pc = "done"]
  /\ UNCHANGED << src, tier1Index, tier1Docs, tier1Built, srcCalls, builds, assigns, readVars, lev >>

\* ------------------------------------------------------------ specifications
\* the options the concurrent specification draws: a query that hits and one
\* that hits nothing, every filter unset
DefaultOptions(q) ==
  SearchOptions(q, << "all" >>, Undefined, Undefined, << >>, << >>, Undefined, Undefined,
                Undefined)

OptionsBasic == { DefaultOptions(q) : q \in { QueryAuth, QueryNonsense } }

\* each source yields every document of its pool once; any source may be faulty
Init ==
  /\ src \in { [i \in DOMAIN Parsers |-> Source(HistoryDocs(Parsers[i]), f[i])] :
               f \in [DOMAIN Parsers -> Faults] }
  /\ InitEngine
  /\ NoRead

Next ==
  \E c \in Calls :
    \/ \E o \in OptionsBasic : SearchStart(c, o)
    \/ AvailResolve(c)
    \/ DocsStep(c)
    \/ MemResolve(c)
    \/ PlanResolve(c)
    \/ \E o \in OptionsBasic : SearchResume(c, o)
    \/ Deliver(c)

Spec == Init /\ [][Next]_vars

\* Sequential calls: the host serves one request at a time, so search() is
\* called only when no other call is in flight; the calls are numbered in the
\* order they are made.
InFlight(c) == calls[c].pc \notin { "idle", "done", "rejected" }

IsNextCall(c) ==
  /\ \A other \in Calls : ~InFlight(other)
  /\ \A earlier \in 1..(c - 1) : calls[earlier].pc # "idle"

OptionsAll ==
  { SearchOptions(QueryAuth, a, from, Undefined, t, pr, mm, lim, Undefined) :
      a \in { << "all" >>, << "claude" >> },
      from \in { Undefined, 100 },
      t \in { << >>, << "conversation", "memory" >> },
      pr \in { << >>, << "a", "P" >> },
      mm \in { Undefined, 5 },
      lim \in { Undefined, 1, 2 } }
  \cup OptionsBasic

\* at most one source is faulty; each source yields any documents of its pool
InitSeq ==
  /\ src \in { [i \in DOMAIN Parsers |->
                  Source(d[i], IF i = bad THEN fault ELSE "none")] :
               d \in { e \in [DOMAIN Parsers ->
                                SeqsUpTo(UNION { HistoryPool(Parsers[i]) : i \in DOMAIN Parsers },
                                         MaxDocs)] :
                         \A i \in DOMAIN Parsers : \A n \in DOMAIN e[i] :
                           e[i][n] \in HistoryPool(Parsers[i]) },
               bad \in DOMAIN Parsers,
               fault \in { "none", "unavailable", "availThrows", "docsThrowLast" } }
  /\ InitEngine
  /\ NoRead

NextSeq ==
  \E c \in Calls :
    \/ /\ IsNextCall(c)
       /\ \E o \in OptionsAll : SearchStart(c, o)
    \/ AvailResolve(c)
    \/ DocsStep(c)
    \/ MemResolve(c)
    \/ PlanResolve(c)
    \/ \E o \in OptionsAll : SearchResume(c, o)
    \/ Deliver(c)

SpecSeq == InitSeq /\ [][NextSeq]_vars

\* ------------------------------------------- search(): results with snippets
\* n times the character ch
Rep(ch, n) == [i \in 1..n |-> ch]

\* texts: "", "Fix AUTH.", " no match here ", "auth" twice 300 and 299
\* characters apart, "auth" four times 300 apart, "auht" twice 301 apart
\* between spaces, and 250 times "a"
SnipEmpty == << >>
SnipShort == << "F", "i", "x", " ", "A", "U", "T", "H", "." >>
SnipFallback == << " ", "n", "o", " ", "m", "a", "t", "c", "h", " ", "h", "e", "r", "e", " " >>
SnipTwo == QueryAuth \o Rep("x", 296) \o QueryAuth
SnipNear == QueryAuth \o Rep("x", 295) \o QueryAuth
SnipFour ==
  QueryAuth \o Rep("x", 296) \o QueryAuth \o Rep("x", 296) \o QueryAuth
  \o Rep("x", 296) \o QueryAuth
SnipFuzzy ==
  << "a", "u", "h", "t", " " >> \o Rep("x", 295) \o << " ", "a", "u", "h", "t" >>
SnipMany == Rep("a", 250)

\* n times the string s
Repeat(s, n) == SubSeq([i \in 1..(n * Len(s)) |-> s[((i - 1) % Len(s)) + 1]], 1, n * Len(s))

\* 34 times "abz ": every word is one edit from each word of "abx aby abw"
SnipCrowd == Repeat(<< "a", "b", "z", " " >>, 34)
SnipTexts ==
  << SnipEmpty, SnipShort, SnipFallback, SnipTwo, SnipNear, SnipFour, SnipFuzzy, SnipMany,
     SnipCrowd >>

\* queries: "au auth" (two words that hit one offset) and "aa"
QueryAuAuth == << "a", "u", " ", "a", "u", "t", "h" >>
QueryAa == << "a", "a" >>

\* "auth fux": one word of the text and one misspelled word
QueryAuthFux == << "a", "u", "t", "h", " ", "f", "u", "x" >>

\* "abx aby abw": three words that stand in no text of the model
QueryAbTriple == << "a", "b", "x", " ", "a", "b", "y", " ", "a", "b", "w" >>
SnipQueries == { QueryAuth, QueryAuAuth, QueryAa, QueryAuthFux, QueryAbTriple }

ProjAuth == << "a", "u", "t", "h", " ", "a", "a" >>

\* a conversation document with its text; the index finds it for every query
\* of SnipQueries through its project field
TextDoc(n) ==
  Doc(<< "claude", "history", n >>, "claude", "conversation", Len(SnipTexts[n]), 3, 100,
      ProjAuth, 2, SnipQueries) @@ [text |-> SnipTexts[n]]

\* the options: a query and maxSnippets
OptionsSnip ==
  { SearchOptions(q, << "all" >>, Undefined, Undefined, << >>, << >>, Undefined, Undefined,
                  ms) :
      q \in SnipQueries \cup { QueryNonsense }, ms \in { Undefined, 0, 1, 2 } }

\* the first source yields one document with text
InitSnip ==
  /\ src \in { [i \in DOMAIN Parsers |->
                   Source(IF i = 1 THEN << TextDoc(n) >> ELSE << >>, "none")] :
                n \in DOMAIN SnipTexts }
  /\ InitEngine
  /\ NoRead

NextSnip ==
  \E c \in Calls :
    \/ /\ IsNextCall(c)
       /\ \E o \in OptionsSnip : SearchStart(c, o)
    \/ AvailResolve(c)
    \/ DocsStep(c)
    \/ MemResolve(c)
    \/ PlanResolve(c)
    \/ \E o \in OptionsSnip : SearchResume(c, o)
    \/ Deliver(c)

SpecSnip == InitSnip /\ [][NextSnip]_vars

\* --------------------------------------------- search(): the date filter
\* timestamps in epoch milliseconds a document may carry; 0 is 1970-01-01T00:00Z
DateStamps == { Undefined, 0, 50, 100, 150, 200 }

\* a conversation document with the timestamp t
DateDoc(t) ==
  Doc(<< "claude", "history", t >>, "claude", "conversation", 400, 3, t, ProjApi, 2,
      { QueryAuth })

\* the options: dateFrom and dateTo as getTime() gives them, Undefined when
\* the Date is not supplied
OptionsDate ==
  { SearchOptions(QueryAuth, << "all" >>, from, to, << >>, << >>, Undefined, Undefined,
                  Undefined) :
      from \in { Undefined, 0, 100 }, to \in { Undefined, 0, 150 } }

\* the first source yields one or two documents with timestamps
InitDate ==
  /\ src \in { [i \in DOMAIN Parsers |->
                   Source(IF i = 1 THEN d ELSE << >>, "none")] :
                d \in { << DateDoc(t) >> : t \in DateStamps }
                      \cup { << DateDoc(p[1]), DateDoc(p[2]) >> :
                               p \in { q \in DateStamps \X DateStamps : q[1] < q[2] } } }
  /\ InitEngine
  /\ NoRead

NextDate ==
  \E c \in Calls :
    \/ /\ IsNextCall(c)
       /\ \E o \in OptionsDate : SearchStart(c, o)
    \/ AvailResolve(c)
    \/ DocsStep(c)
    \/ MemResolve(c)
    \/ PlanResolve(c)
    \/ \E o \in OptionsDate : SearchResume(c, o)
    \/ Deliver(c)

SpecDate == InitDate /\ [][NextDate]_vars

\* ------------------------------------------------- logbook_read: the handler
\* messages per session
MaxMessages == 10

\* message contents: "Fix AUTH." and "hi you"
TextAuth == << "F", "i", "x", " ", "A", "U", "T", "H", "." >>
TextOther == << "h", "i", " ", "y", "o", "u" >>
MsgTexts == { TextAuth, TextOther }

\* queries: the misspelt "auht"; an absent query (undefined) and
\* the empty string, which are both falsy
NoQuery == << "undefined" >>
EmptyQuery == << >>

\* a test that takes every string, the empty one included, for a query
HasQueryDefined(query) == query # NoQuery

\* truthiness of the optional string query
HasQuery(query) == query # NoQuery /\ Len(query) > 0

QueryAuht == << "a", "u", "h", "t" >>

\* more message contents: "Fix authors", "auth", "JWT auth fix", "" and "fix_Auht"
TextAuthors == << "F", "i", "x", " ", "a", "u", "t", "h", "o", "r", "s" >>
TextBare == << "a", "u", "t", "h" >>
TextJwt == << "J", "W", "T", " ", "a", "u", "t", "h", " ", "f", "i", "x" >>
TextEmpty == << >>
TextAuht == << "f", "i", "x", "_", "A", "u", "h", "t" >>
MatchTexts == MsgTexts \cup { TextAuthors, TextBare, TextJwt, TextEmpty, TextAuht }

\* more queries: "AUTH", "fix auth", "fox auht", "uth fox", "auth fox",
\* "jwt you", and two without a token: "." and "a"
QueryUpper == << "A", "U", "T", "H" >>
QueryFixAuth == << "f", "i", "x", " ", "a", "u", "t", "h" >>
QueryFoxAuht == << "f", "o", "x", " ", "a", "u", "h", "t" >>
QueryUthFox == << "u", "t", "h", " ", "f", "o", "x" >>
QueryAuthFox == << "a", "u", "t", "h", " ", "f", "o", "x" >>
QueryJwtYou == << "j", "w", "t", " ", "y", "o", "u" >>
QueryDot == << "." >>
QueryOneChar == << "a" >>
MatchQueries ==
  { NoQuery, EmptyQuery, QueryAuth, QueryAuht, QueryUpper, QueryFixAuth, QueryFoxAuht,
    QueryUthFox, QueryAuthFox, QueryJwtYou, QueryDot, QueryOneChar }

\* a predicate that asks for one query word only (OR over the query words)
MatchesMessageAny(text, queryWords) ==
  IF Len(queryWords) = 0 THEN FALSE
  ELSE IF \E i \in DOMAIN queryWords : Includes(ToLowerCase(text), queryWords[i])
  THEN TRUE
  ELSE LET msgTokens == Tokenize(text)
       IN \E i \in DOMAIN queryWords :
            \E m \in DOMAIN msgTokens :
              /\ ~(Abs(Len(msgTokens[m]) - Len(queryWords[i])) > 2)
              /\ LevenshteinDistance(msgTokens[m], queryWords[i]) <= 2

\* matchesMessage(text) for the query words queryWords
MatchesMessage(text, queryWords) ==
  IF Len(queryWords) = 0 THEN FALSE
  ELSE IF \A i \in DOMAIN queryWords : Includes(ToLowerCase(text), queryWords[i])
  THEN TRUE
  ELSE LET msgTokens == Tokenize(text)
       IN \A i \in DOMAIN queryWords :
            \E m \in DOMAIN msgTokens :
              /\ ~(Abs(Len(msgTokens[m]) - Len(queryWords[i])) > 2)
              /\ LevenshteinDistance(msgTokens[m], queryWords[i]) <= 2

\* queryWords = query ? tokenize(query) : []
QueryWords(query) == IF HasQuery(query) THEN Tokenize(query) ELSE << >>

\* the closure matchesMessage of one request, tabulated over the contents
MatchTable ==
  [q \in MatchQueries |->
     [t \in MatchTexts |-> MatchesMessage(t, QueryWords(q))]]

Matches(query, text) == MatchTable[query][text]

\* Array.prototype.slice(start, end) for 0 <= start
Slice(s, start, end) == SubSeq(s, start + 1, Min(end, Len(s)))

\* session.messages, each message with its index in the session
AllMessages(sess) == [i \in DOMAIN sess.messages |-> [orig |-> i - 1, content |-> sess.messages[i]]]

\* allMessages.map((m, i) => matchesMessage(m.content) ? i : -1).filter((i) => i !== -1)
AllMatchIndices(messages, query) ==
  LET hit(i) == Matches(query, messages[i + 1].content)
  IN SelectSeq([i \in DOMAIN messages |-> i - 1], hit)

\* a cap that keeps the last maxMatches matches
SelectedMatchesLast(allMatchIndices, maxMatches) ==
  IF Truthy(maxMatches)
  THEN SubSeq(allMatchIndices, Max(1, Len(allMatchIndices) - maxMatches + 1),
              Len(allMatchIndices))
  ELSE allMatchIndices

\* maxMatches ? allMatchIndices.slice(0, maxMatches) : allMatchIndices
SelectedMatches(allMatchIndices, maxMatches) ==
  IF Truthy(maxMatches) THEN Slice(allMatchIndices, 0, maxMatches) ELSE allMatchIndices

\* the context window around one match
RawWindow(idx, cw, totalMessages) ==
  [start |-> Max(0, idx - cw), end |-> Min(totalMessages - 1, idx + cw),
   matchIndices |-> << idx >>]

\* a merge loop that joins overlapping windows only, not adjacent ones
MergeStepOverlapOnly(merged, win) ==
  IF Len(merged) > 0 /\ win.start <= merged[Len(merged)].end
  THEN [merged EXCEPT ![Len(merged)] =
          [start |-> @.start, end |-> Max(@.end, win.end),
           matchIndices |-> @.matchIndices \o win.matchIndices]]
  ELSE Append(merged, win)

\* one step of the merge loop
MergeStep(merged, win) ==
  IF Len(merged) > 0 /\ win.start <= merged[Len(merged)].end + 1
  THEN [merged EXCEPT ![Len(merged)] =
          [start |-> @.start, end |-> Max(@.end, win.end),
           matchIndices |-> @.matchIndices \o win.matchIndices]]
  ELSE Append(merged, win)

\* merge overlapping windows: the loop over rawWindows
RECURSIVE MergeWindows(_)
MergeWindows(rawWindows) ==
  IF rawWindows = << >> THEN << >>
  ELSE MergeStep(MergeWindows(SubSeq(rawWindows, 1, Len(rawWindows) - 1)),
                 rawWindows[Len(rawWindows)])

\* one window of the output
WindowOutput(win, allMessages) ==
  [startIndex |-> win.start, endIndex |-> win.end, matchIndices |-> win.matchIndices,
   messages |->
     LET part == Slice(allMessages, win.start, win.end + 1)
     IN [i \in DOMAIN part |->
           [index |-> win.start + (i - 1), orig |-> part[i].orig,
            matched |-> InList(win.start + (i - 1), win.matchIndices)]]]

\* allMatches mode (lines 324-414)
AllMatchesResponse(sess, a) ==
  LET allMessages == AllMessages(sess)
      totalMessages == Len(allMessages)
      allMatchIndices == AllMatchIndices(allMessages, a.query)
      selectedMatches == SelectedMatches(allMatchIndices, a.maxMatches)
      cw == IF a.contextWindow = Undefined THEN 0 ELSE a.contextWindow
      rawWindows == [n \in DOMAIN selectedMatches |->
                       RawWindow(selectedMatches[n], cw, totalMessages)]
      merged == MergeWindows(rawWindows)
  IN IF Len(allMatchIndices) = 0
     THEN [kind |-> "noMatches", isError |-> FALSE, args |-> a,
           totalMessages |-> totalMessages, totalMatches |-> 0, queryNotFound |-> TRUE]
     ELSE [kind |-> "windows", isError |-> FALSE, args |-> a,
           totalMessages |-> totalMessages, totalMatches |-> Len(allMatchIndices),
           windowedMatches |-> Len(selectedMatches),
           windows |-> [n \in DOMAIN merged |-> WindowOutput(merged[n], allMessages)]]

\* messages.findIndex((m) => matchesMessage(m.content))
FindIndex(messages, query) ==
  IF \E i \in DOMAIN messages : Matches(query, messages[i].content)
  THEN (CHOOSE i \in DOMAIN messages :
          /\ Matches(query, messages[i].content)
          /\ \A j \in 1..(i - 1) : ~Matches(query, messages[j].content)) - 1
  ELSE NotFound

\* a slice that stops one message short after the match
ContextSliceShort(messages, matchIndex, contextWindow) ==
  Slice(messages, Max(0, matchIndex - contextWindow),
        Min(Len(messages), matchIndex + contextWindow))

\* messages.slice(start, end) around the match (lines 424-426)
ContextSlice(messages, matchIndex, contextWindow) ==
  Slice(messages, Max(0, matchIndex - contextWindow),
        Min(Len(messages), matchIndex + contextWindow + 1))

\* a single-match mode that paginates the session first and narrows to the
\* context window afterwards
SingleMatchResponsePagedFirst(sess, a) ==
  LET allMessages == AllMessages(sess)
      sliceStart == IF a.offset # Undefined /\ a.offset > 0
                    THEN Min(a.offset, Len(allMessages)) ELSE 0
      paged == Slice(allMessages, sliceStart, Len(allMessages))
      limited == IF a.limit # Undefined THEN Slice(paged, 0, a.limit) ELSE paged
      found == IF HasQuery(a.query) THEN FindIndex(limited, a.query) ELSE Undefined
      narrow == HasQuery(a.query) /\ found # NotFound /\ a.contextWindow # Undefined
      start == IF narrow THEN Max(0, found - a.contextWindow) ELSE 0
      messages == IF narrow THEN ContextSlice(limited, found, a.contextWindow) ELSE limited
      matchIndex == IF narrow THEN found - start ELSE found
      isFound == matchIndex # Undefined /\ matchIndex # NotFound
  IN [kind |-> "messages", isError |-> FALSE, args |-> a,
      totalMessages |-> Len(allMessages), returnedMessages |-> Len(messages),
      messages |-> [i \in DOMAIN messages |->
                      [index |-> sliceStart + (i - 1), orig |-> messages[i].orig,
                       matched |-> matchIndex # Undefined /\ i - 1 = matchIndex]],
      matchedMessageIndex |-> IF isFound THEN matchIndex + sliceStart ELSE Undefined,
      allMatchIndices |-> IF isFound THEN AllMatchIndices(allMessages, a.query) ELSE << >>,
      queryNotFound |-> ~isFound /\ HasQuery(a.query),
      narrowed |-> [i \in DOMAIN messages |-> messages[i].orig],
      found |-> found]

\* single-match mode (lines 416-471).  narrowed (the list before pagination)
\* and found (the result of findIndex) are recorded beside the response.
SingleMatchResponse(sess, a) ==
  LET allMessages == AllMessages(sess)
      found == IF HasQuery(a.query) THEN FindIndex(allMessages, a.query) ELSE Undefined
      narrow == HasQuery(a.query) /\ found # NotFound /\ a.contextWindow # Undefined
      start == IF narrow THEN Max(0, found - a.contextWindow) ELSE 0
      narrowed == IF narrow THEN ContextSlice(allMessages, found, a.contextWindow)
                  ELSE allMessages
      matchIndex == IF narrow THEN found - start ELSE found
      sliceStart == IF a.offset # Undefined /\ a.offset > 0
                    THEN Min(a.offset, Len(narrowed)) ELSE 0
      paged == Slice(narrowed, sliceStart, Len(narrowed))
      messages == IF a.limit # Undefined THEN Slice(paged, 0, a.limit) ELSE paged
      isFound == matchIndex # Undefined /\ matchIndex # NotFound
  IN [kind |-> "messages", isError |-> FALSE, args |-> a,
      totalMessages |-> Len(allMessages), returnedMessages |-> Len(messages),
      messages |-> [i \in DOMAIN messages |->
                      [index |-> sliceStart + (i - 1), orig |-> messages[i].orig,
                       matched |-> matchIndex # Undefined /\ i - 1 = matchIndex - sliceStart]],
      matchedMessageIndex |-> IF isFound THEN matchIndex + sliceStart ELSE Undefined,
      allMatchIndices |-> IF isFound THEN AllMatchIndices(allMessages, a.query) ELSE << >>,
      queryNotFound |-> ~isFound /\ HasQuery(a.query),
      narrowed |-> [i \in DOMAIN narrowed |-> narrowed[i].orig],
      found |-> found]

\* a handler without the lookup checks: a failed lookup reads as no messages
ReadResponseNoLookup(sess, a) ==
  IF HasQuery(a.query) /\ a.allMatches
  THEN AllMatchesResponse(sess, a)
  ELSE SingleMatchResponse(sess, a)

\* the handler of logbook_read (lines 276-472)
ReadResponse(sess, a) ==
  IF sess.lookup # "ok"
  THEN [kind |-> "error", isError |-> TRUE, args |-> a]
  ELSE IF HasQuery(a.query) /\ a.allMatches
  THEN AllMatchesResponse(sess, a)
  ELSE SingleMatchResponse(sess, a)

ReadArgs(query, contextWindow, allMatches, maxMatches, offset, limit) ==
  [query |-> query, contextWindow |-> contextWindow, allMatches |-> allMatches,
   maxMatches |-> maxMatches, offset |-> offset, limit |-> limit]

\* one logbook_read request is served
LogbookRead(a) ==
  /\ readOut = NoReadOut
  /\ readOut' = ReadResponse(session, a)
  /\ UNCHANGED << engineVars, session, lev >>

\* the requests: all-matches mode, single-match mode, and no query
ReadRequests ==
  { ReadArgs(q, cw, TRUE, mm, Undefined, Undefined) :
      q \in { QueryAuth, QueryAuht }, cw \in { Undefined, 0, 1, 2 }, mm \in { Undefined, 1, 2 } }
  \cup
  { ReadArgs(q, cw, FALSE, Undefined, off, lim) :
      q \in { QueryAuth, QueryAuht }, cw \in { Undefined, 0, 1, 2 },
      off \in { Undefined, 0, 2 }, lim \in { Undefined, 1, 3 } }
  \cup
  { ReadArgs(NoQuery, cw, all, Undefined, off, lim) :
      cw \in { Undefined, 1 }, all \in BOOLEAN,
      off \in { Undefined, 2 }, lim \in { Undefined, 1, 3 } }

\* the session the request names: no parser for the agent, no such session, or
\* a session with any messages
InitRead ==
  /\ session \in { [lookup |-> l, messages |-> << >>] : l \in { "noParser", "noSession" } }
                 \cup { [lookup |-> "ok", messages |-> m] : m \in SeqsUpTo(MsgTexts, MaxMessages) }
  /\ readOut = NoReadOut
  /\ lev = NoLev
  /\ src = [i \in DOMAIN Parsers |-> Source(<< >>, "none")]
  /\ InitEngine

NextRead == \E a \in ReadRequests : LogbookRead(a)

SpecRead == InitRead /\ [][NextRead]_vars

\* ------------------------------------------- logbook_read: query matching
\* messages of a session whose contents vary
MaxMatchMessages == 2

\* the requests with any query, in all-matches and in single-match mode
MatchRequests ==
  { ReadArgs(q, Undefined, all, Undefined, Undefined, Undefined) :
      q \in MatchQueries, all \in BOOLEAN }

\* a session with any contents
InitMatch ==
  /\ session \in { [lookup |-> "ok", messages |-> m] :
                     m \in SeqsUpTo(MatchTexts, MaxMatchMessages) }
  /\ readOut = NoReadOut
  /\ lev = NoLev
  /\ src = [i \in DOMAIN Parsers |-> Source(<< >>, "none")]
  /\ InitEngine

NextMatch == \E a \in MatchRequests : LogbookRead(a)

SpecMatch == InitMatch /\ [][NextMatch]_vars

\* ------------------------------------------------- levenshteinDistance
\* the strings of the calls: up to LevMaxLen characters over LevAlphabet
LevMaxLen == 3
LevAlphabet == { "a", "b", "c" }
LevStrings == SeqsUpTo(LevAlphabet, LevMaxLen)

\* levenshteinDistance(lev.a, lev.b) is called and returns
CallLevenshtein ==
  /\ lev.dist = Undefined
  /\ lev' = [lev EXCEPT !.dist = LevenshteinDistance(lev.a, lev.b)]
  /\ UNCHANGED << engineVars, readVars >>

\* any two strings are the arguments
InitLev ==
  /\ lev \in { [a |-> x, b |-> y, dist |-> Undefined] : x \in LevStrings, y \in LevStrings }
  /\ session = NoSession
  /\ readOut = NoReadOut
  /\ src = [i \in DOMAIN Parsers |-> Source(<< >>, "none")]
  /\ InitEngine

NextLev == CallLevenshtein

SpecLev == InitLev /\ [][NextLev]_vars

\* ------------------------------------------------------------------ claims
\* What a build enumerates, read off the sources: per source its searchable
\* documents, then its memory files, then its plan files, up to its fault.
MemoryDocs(i) ==
  [n \in DOMAIN MemoryFiles(Parsers[i]) |-> MemoryDoc(Parsers[i], MemoryFiles(Parsers[i])[n])]

PlanDocs(i) ==
  [n \in DOMAIN PlanFiles(Parsers[i]) |-> PlanDoc(Parsers[i], PlanFiles(Parsers[i])[n])]

Contribution(i) ==
  CASE src[i].fault \in { "unavailable", "availThrows", "docsThrowFirst" } -> << >>
    [] src[i].fault = "docsThrowMid" /\ Len(src[i].docs) >= 1 -> SubSeq(src[i].docs, 1, 1)
    [] src[i].fault \in { "docsThrowLast", "memThrows" } -> src[i].docs
    [] src[i].fault = "planThrows" -> src[i].docs \o MemoryDocs(i)
    [] OTHER -> src[i].docs \o MemoryDocs(i) \o PlanDocs(i)

RECURSIVE EnumerationUpTo(_)
EnumerationUpTo(i) == IF i = 0 THEN << >> ELSE EnumerationUpTo(i - 1) \o Contribution(i)

Enumeration == EnumerationUpTo(Len(Parsers))

\* the positions of e that hold the first document of their id
FirstPositions(e) == { i \in DOMAIN e : \A j \in 1..(i - 1) : e[j].id # e[i].id }

\* t is e cut down to the first document of each id, order kept
IsFirstOfEachId(t, e) ==
  /\ Len(t) = Cardinality(FirstPositions(e))
  /\ \A i \in FirstPositions(e) :
       t[Cardinality({ j \in FirstPositions(e) : j <= i })] = e[i]

EnumFault(i) ==
  src[i].fault \in { "docsThrowFirst", "docsThrowMid", "docsThrowLast", "memThrows", "planThrows" }

Healthy(i) == src[i].fault = "none"

\* C1: search() calls that overlap the first build share one build: buildTier1
\* runs once, every method of every source is invoked at most once, and the
\* index and the document list are assigned once.
C1_BuildRunsOnce ==
  /\ builds <= 1
  /\ assigns <= 1
  /\ \A i \in DOMAIN Parsers :
       /\ srcCalls[i].isAvailable <= 1
       /\ srcCalls[i].getSearchableDocuments <= 1
       /\ srcCalls[i].getMemoryFiles <= 1
       /\ srcCalls[i].getPlanFiles <= 1

\* C2: after a build the document list and the index hold, for each id, the
\* first document enumerated with it and nothing else, in enumeration order;
\* a result list has one result per id, made of that first document.
C2_DedupKeepsFirst ==
  /\ assigns >= 1 =>
       /\ tier1Index.docs = tier1Docs
       /\ \A a, b \in DOMAIN tier1Docs : a # b => tier1Docs[a].id # tier1Docs[b].id
       /\ IsFirstOfEachId(tier1Docs, Enumeration)
  /\ out # NoOut =>
       /\ \A a, b \in DOMAIN out.results : a # b => out.results[a].id # out.results[b].id
       /\ \A a \in DOMAIN out.results :
            \E i \in FirstPositions(Enumeration) :
              /\ Enumeration[i].id = out.results[a].id
              /\ Enumeration[i].textLen = out.results[a].textLen
              /\ Enumeration[i].agent = out.results[a].agent
              /\ Enumeration[i].messageCount = out.results[a].messageCount

\* C2 witness: the enumeration held an id twice and the result list being
\* returned has a result of that id
C2_Witness ==
  /\ out # NoOut
  /\ \E i, j \in DOMAIN Enumeration :
       /\ i < j
       /\ Enumeration[i].id = Enumeration[j].id
       /\ Enumeration[i].agent # Enumeration[j].agent
       /\ \E a \in DOMAIN out.results : out.results[a].id = Enumeration[i].id

\* C3: the constructor calls no source; the first search() enters the build;
\* once a build has completed, no sequential call invokes a source method or
\* changes the index or the document list.
C3_LazyBuildReused ==
  [][ /\ (builds = 0 => /\ ~tier1Built
                        /\ tier1Index = NullIndex
                        /\ \A i \in DOMAIN Parsers : srcCalls[i] = NoSrcCalls)
      /\ (builds = 0 /\ calls' # calls => builds' = 1 /\ srcCalls'[1].isAvailable = 1)
      /\ (assigns >= 1 => /\ srcCalls' = srcCalls
                          /\ builds' = builds
                          /\ assigns' = assigns
                          /\ tier1Index' = tier1Index
                          /\ tier1Docs' = tier1Docs
                          /\ tier1Built' /\ tier1Built) ]_vars

\* C3 witness: a second call is answered after the first one was, with the one build
C3_Witness ==
  /\ assigns = 1
  /\ builds = 1
  /\ \E c, d \in Calls : calls[c].pc = "done" /\ calls[d].pc = "returning" /\ out.call = d

\* C4: a throw of getSearchableDocuments, getMemoryFiles or getPlanFiles (no
\* isAvailable throws) rejects no call; the build completes, marks the index
\* built and holds every document of every healthy source.
C4_EnumerationThrowAbsorbed ==
  (\A i \in DOMAIN Parsers : src[i].fault # "availThrows") =>
    /\ \A c \in Calls : calls[c].pc # "rejected"
    /\ \A c \in Calls : calls[c].pc \in { "resume", "returning", "done" } => assigns >= 1
    /\ assigns >= 1 =>
         /\ tier1Built
         /\ ~tier1Index.isNull
         /\ \A j \in DOMAIN Parsers : Healthy(j) =>
              \A n \in DOMAIN Contribution(j) :
                \E m \in DOMAIN tier1Index.docs : tier1Index.docs[m].id = Contribution(j)[n].id

\* C4 witness: the first source threw while enumerating, and the call is
\* returning a result that comes from the plan file of the second source
C4_Witness ==
  /\ EnumFault(1)
  /\ Healthy(2)
  /\ out # NoOut
  /\ \E a \in DOMAIN out.results : out.results[a].type = "plan" /\ out.results[a].agent = Parsers[2]

\* C5: no failure local to one source (a throw of isAvailable included)
\* makes search() reject.
C5_SourceFailureNeverRejects ==
  \A c \in Calls : calls[c].pc # "rejected"

\* C6: the result list is ordered by non-increasing final score.
C6_SortedByFinalScore ==
  out # NoOut =>
    \A a, b \in DOMAIN out.results :
      a < b => ScoreGeq(out.results[a].score, out.results[b].score)

\* C6 witness: a result list where the final scores reverse the raw order
C6_Witness ==
  /\ out # NoOut
  /\ \E a, b \in DOMAIN out.results :
       /\ a < b
       /\ ScoreLess(out.results[b].score, out.results[a].score)
       /\ ScoreLess(out.results[a].raw, out.results[b].raw)

\* C7: at most limit results (20 when unset) are returned, and they are the
\* best by final score of all hits that pass the filters.
C7_LimitKeepsBest ==
  out # NoOut =>
    LET all == Mapped(tier1Index, tier1Docs, out.options)
        lim == IF out.options.limit = Undefined THEN DefaultLimit ELSE out.options.limit
        res == out.results
    IN /\ Len(res) <= lim
       /\ Len(res) = Min(lim, Len(all))
       /\ \A a \in DOMAIN res : \E b \in DOMAIN all : all[b] = res[a]
       /\ \A b \in DOMAIN all :
            (\A a \in DOMAIN res : res[a].id # all[b].id) =>
              \A a \in DOMAIN res : ScoreGeq(res[a].score, all[b].score)

\* C7 witness: a hit was cut off by the limit though its raw relevance is
\* higher than that of a returned one
C7_Witness ==
  /\ out # NoOut
  /\ out.options.limit # Undefined
  /\ LET all == Mapped(tier1Index, tier1Docs, out.options)
     IN \E b \in DOMAIN all :
          /\ \A a \in DOMAIN out.results : out.results[a].id # all[b].id
          /\ \E a \in DOMAIN out.results : ScoreLess(out.results[a].raw, all[b].raw)

\* C8: score = raw / (1 + 0.5 * penalty): unchanged for a text of at most 500
\* characters, never above the raw score, and of two hits with equal raw score
\* the shorter text never gets the lower score.
C8_LengthPenalty ==
  out # NoOut =>
    /\ \A a \in DOMAIN out.results :
         LET r == out.results[a]
         IN /\ r.textLen <= 500 => r.score.num * r.raw.den = r.raw.num * r.score.den
            /\ ScoreGeq(r.raw, r.score)
            /\ r.textLen = 1000 => 3 * r.score.num * r.raw.den = 2 * r.raw.num * r.score.den
            /\ r.textLen = 4000 => 5 * r.score.num * r.raw.den = 2 * r.raw.num * r.score.den
    /\ \A a, b \in DOMAIN out.results :
         LET r == out.results[a]
             q == out.results[b]
         IN (r.raw = q.raw /\ r.textLen <= q.textLen) => ScoreGeq(r.score, q.score)

\* C8 witness: two results of equal raw score with texts of 400 and 4000
\* characters, the shorter one scored strictly higher
C8_Witness ==
  /\ out # NoOut
  /\ \E a, b \in DOMAIN out.results :
       /\ out.results[a].raw = out.results[b].raw
       /\ out.results[a].textLen = 400
       /\ out.results[b].textLen = 4000
       /\ ScoreLess(out.results[b].score, out.results[a].score)

\* ---- logbook_read
\* the indices of the session's messages that satisfy the match predicate
MatchSet(query) ==
  { i \in 0..(Len(session.messages) - 1) : MatchTable[query][session.messages[i + 1]] }

\* the kept matches: the maxMatches lowest matching indices, or all of them
KeptMatches(query, maxMatches) ==
  IF maxMatches = Undefined THEN MatchSet(query)
  ELSE { i \in MatchSet(query) :
           Cardinality({ j \in MatchSet(query) : j < i }) < maxMatches }

\* the clamped range around index i
ClampedRange(i, w) ==
  { j \in 0..(Len(session.messages) - 1) : i - w <= j /\ j <= i + w }

SeqRange(s) == { s[n] : n \in DOMAIN s }

\* the session of the example: 10 messages, matches at 2, 3 and 7
ExampleSession ==
  [lookup |-> "ok",
   messages |-> << TextOther, TextOther, TextAuth, TextAuth, TextOther,
                   TextOther, TextOther, TextAuth, TextOther, TextOther >>]

ExampleRequest == ReadArgs(QueryAuth, 1, TRUE, Undefined, Undefined, Undefined)

\* C9: in all-matches mode the windows are ascending, disjoint and non-adjacent,
\* each window is the union of the clamped ranges of the match indices it
\* carries, each kept match index is carried by exactly one window, and the
\* example (10 messages, matches at 2, 3, 7, contextWindow 1) gives the windows
\* [1,4] carrying 2, 3 and [6,8] carrying 7.
C9_WindowsMerged ==
  readOut.kind = "windows" =>
    LET ws == readOut.windows
        w == IF readOut.args.contextWindow = Undefined THEN 0
             ELSE readOut.args.contextWindow
        kept == KeptMatches(readOut.args.query, readOut.args.maxMatches)
    IN /\ \A n \in 2..Len(ws) : ws[n].startIndex > ws[n - 1].endIndex + 1
       /\ \A n \in DOMAIN ws :
            /\ ws[n].matchIndices # << >>
            /\ ws[n].startIndex..ws[n].endIndex
                 = UNION { ClampedRange(i, w) : i \in SeqRange(ws[n].matchIndices) }
            /\ { ws[n].messages[k].index : k \in DOMAIN ws[n].messages }
                 = ws[n].startIndex..ws[n].endIndex
            /\ SeqRange(ws[n].matchIndices) \subseteq kept
       /\ \A i \in kept :
            Cardinality({ nk \in (DOMAIN ws) \X (1..(MaxMessages + 1)) :
                            /\ nk[2] \in DOMAIN ws[nk[1]].matchIndices
                            /\ ws[nk[1]].matchIndices[nk[2]] = i }) = 1
       /\ (session = ExampleSession /\ readOut.args = ExampleRequest) =>
            /\ Len(ws) = 2
            /\ ws[1].startIndex = 1 /\ ws[1].endIndex = 4 /\ ws[1].matchIndices = << 2, 3 >>
            /\ ws[2].startIndex = 6 /\ ws[2].endIndex = 8 /\ ws[2].matchIndices = << 7 >>

\* the example request has been served with windows
C9_Witness ==
  /\ session = ExampleSession
  /\ readOut.kind = "windows"
  /\ readOut.args = ExampleRequest
  /\ Len(readOut.windows) = 2

\* C10: in single-match mode with a matching query and contextWindow w, the
\* match m is the lowest matching index and the list before pagination is the
\* messages at indices max(0, m - w) .. min(last, m + w); it contains m and has
\* at most 2w + 1 messages, exactly 2w + 1 when nothing is clamped.
C10_ContextWindow ==
  (/\ readOut.kind = "messages"
   /\ HasQuery(readOut.args.query)
   /\ readOut.args.contextWindow # Undefined
   /\ MatchSet(readOut.args.query) # {}) =>
    LET w == readOut.args.contextWindow
        last == Len(session.messages) - 1
        m == readOut.found
        lo == Max(0, m - w)
        hi == Min(last, m + w)
    IN /\ m \in MatchSet(readOut.args.query)
       /\ \A i \in MatchSet(readOut.args.query) : m <= i
       /\ readOut.narrowed = [n \in 1..(hi - lo + 1) |-> lo + n - 1]
       /\ InList(m, readOut.narrowed)
       /\ Len(readOut.narrowed) <= 2 * w + 1
       /\ (m - w >= 0 /\ m + w <= last) => Len(readOut.narrowed) = 2 * w + 1
       /\ (readOut.args.offset = Undefined /\ readOut.args.limit = Undefined) =>
            /\ [n \in DOMAIN readOut.messages |-> readOut.messages[n].orig] = readOut.narrowed
            /\ \A n \in DOMAIN readOut.messages :
                 readOut.messages[n].matched <=> readOut.messages[n].orig = m

\* a fuzzy match at index 3 of 5 messages, contextWindow 1, nothing clamped,
\* with a later match outside the window
C10_Witness ==
  /\ readOut.kind = "messages"
  /\ readOut.args = ReadArgs(QueryAuht, 1, FALSE, Undefined, Undefined, Undefined)
  /\ session.messages = << TextOther, TextOther, TextOther, TextAuth, TextOther, TextAuth >>
  /\ readOut.found = 3
  /\ readOut.narrowed = << 2, 3, 4 >>

\* the session indices of the list single-match mode paginates: the context
\* window around the lowest match when a query matches and contextWindow is
\* given, the whole session otherwise
WindowLo(a) ==
  IF HasQuery(a.query) /\ a.contextWindow # Undefined /\ MatchSet(a.query) # {}
  THEN Max(0, (CHOOSE m \in MatchSet(a.query) : \A i \in MatchSet(a.query) : m <= i)
                - a.contextWindow)
  ELSE 0

WindowHi(a) ==
  IF HasQuery(a.query) /\ a.contextWindow # Undefined /\ MatchSet(a.query) # {}
  THEN Min(Len(session.messages) - 1,
           (CHOOSE m \in MatchSet(a.query) : \A i \in MatchSet(a.query) : m <= i)
             + a.contextWindow)
  ELSE Len(session.messages) - 1

\* C11: in single-match mode the returned messages are the elements
\* offset .. offset + limit - 1 of the list left by context-window extraction
\* (of the whole session when no window applies): all of them lie inside the
\* window and there are at most limit of them.
C11_PaginationAfterWindow ==
  readOut.kind = "messages" =>
    LET a == readOut.args
        lo == WindowLo(a)
        hi == WindowHi(a)
        off == IF a.offset = Undefined THEN 0 ELSE a.offset
        avail == Max(0, (hi - lo + 1) - off)
        count == IF a.limit = Undefined THEN avail ELSE Min(avail, a.limit)
    IN /\ Len(readOut.messages) = count
       /\ readOut.returnedMessages = count
       /\ \A n \in DOMAIN readOut.messages :
            /\ readOut.messages[n].orig = lo + off + (n - 1)
            /\ lo <= readOut.messages[n].orig /\ readOut.messages[n].orig <= hi
       /\ a.limit # Undefined => Len(readOut.messages) <= a.limit

\* a window of five messages around the match at index 3, paginated to its
\* third element, with messages of the session excluded on both sides
C11_Witness ==
  /\ readOut.kind = "messages"
  /\ readOut.args = ReadArgs(QueryAuth, 2, FALSE, Undefined, 2, 1)
  /\ Len(session.messages) = 8
  /\ readOut.found = 3
  /\ Len(readOut.messages) = 1
  /\ readOut.messages[1].orig = 3

\* ---- the per-message predicate
\* edit distance by its recursive definition on the last characters
RECURSIVE EditDistance(_, _)
EditDistance(x, y) ==
  IF Len(x) = 0 THEN Len(y)
  ELSE IF Len(y) = 0 THEN Len(x)
  ELSE LET x1 == SubSeq(x, 1, Len(x) - 1)
           y1 == SubSeq(y, 1, Len(y) - 1)
       IN IF x[Len(x)] = y[Len(y)] THEN EditDistance(x1, y1)
          ELSE 1 + Min(EditDistance(x1, y1), Min(EditDistance(x1, y), EditDistance(x, y1)))

IsSubstring(sub, text) ==
  \E i \in 1..(Len(text) - Len(sub) + 1) : SubSeq(text, i, i + Len(sub) - 1) = sub

\* every query token is a substring of the lowercased text
ExactAll(text, tokens) ==
  \A i \in DOMAIN tokens : IsSubstring(tokens[i], ToLowerCase(text))

\* every query token is within length difference 2 and edit distance 2 of some
\* token of the text
FuzzyAll(text, tokens) ==
  \A i \in DOMAIN tokens :
    \E m \in DOMAIN Tokenize(text) :
      /\ Abs(Len(Tokenize(text)[m]) - Len(tokens[i])) <= 2
      /\ EditDistance(Tokenize(text)[m], tokens[i]) <= 2

\* the tokens of a query; an absent query has none
ClaimTokens(q) == IF q = NoQuery THEN << >> ELSE Tokenize(q)

\* the predicate as the claim states it, tabulated
ExpectedTable ==
  [q \in MatchQueries |->
     [t \in MatchTexts |->
        /\ ClaimTokens(q) # << >>
        /\ ExactAll(t, ClaimTokens(q)) \/ FuzzyAll(t, ClaimTokens(q))]]

ExpectedMatches(query) ==
  { i \in 0..(Len(session.messages) - 1) : ExpectedTable[query][session.messages[i + 1]] }

\* C12: no message matches a query without tokens; otherwise a message matches
\* exactly when every query token is a substring of its lowercased text, or
\* every query token is within length difference 2 and edit distance 2 of one
\* of its tokens.
C12_MatchPredicate ==
  /\ readOut.kind = "windows" =>
       /\ UNION { SeqRange(readOut.windows[n].matchIndices) : n \in DOMAIN readOut.windows }
            = ExpectedMatches(readOut.args.query)
       /\ readOut.totalMatches = Cardinality(ExpectedMatches(readOut.args.query))
  /\ readOut.kind = "noMatches" => ExpectedMatches(readOut.args.query) = {}
  /\ (readOut.kind = "messages" /\ HasQuery(readOut.args.query)) =>
       /\ SeqRange(readOut.allMatchIndices) = ExpectedMatches(readOut.args.query)
       /\ readOut.queryNotFound <=> ExpectedMatches(readOut.args.query) = {}
       /\ \A n \in DOMAIN readOut.messages :
            readOut.messages[n].matched =>
              readOut.messages[n].orig \in ExpectedMatches(readOut.args.query)
  /\ (readOut.kind \in { "windows", "noMatches", "messages" }
        /\ ClaimTokens(readOut.args.query) = << >>) =>
       /\ readOut.kind # "windows"
       /\ readOut.kind = "messages" =>
            \A n \in DOMAIN readOut.messages : ~readOut.messages[n].matched

\* "fox auht" against "JWT auth fix" and "Fix authors": the first message matches
\* by the fuzzy path only, the second has one of the two words only
C12_Witness ==
  /\ readOut.kind = "windows"
  /\ readOut.args.query = QueryFoxAuht
  /\ session.messages = << TextJwt, TextAuthors >>
  /\ readOut.totalMatches = 1
  /\ readOut.windows[1].matchIndices = << 0 >>

\* ---- the "no match" signal
\* the response carries queryNotFound
CarriesQueryNotFound == readOut.kind \in { "noMatches", "messages" } /\ readOut.queryNotFound

\* the response carries matchedMessageIndex
CarriesMatchedMessageIndex ==
  readOut.kind = "messages" /\ readOut.matchedMessageIndex # Undefined

Responded == readOut.kind \in { "windows", "noMatches", "messages" }

\* a query was supplied and is not the empty string
NonEmptyQuery(q) == q # NoQuery /\ q # EmptyQuery

\* C13: a non-empty query that no message satisfies gives a non-error result
\* with queryNotFound and without matchedMessageIndex (totalMatches = 0 in
\* all-matches mode); a query that some message satisfies gives no
\* queryNotFound; no query or the empty string gives neither field.
C13_QueryNotFoundSignal ==
  Responded =>
    LET q == readOut.args.query
    IN /\ (NonEmptyQuery(q) /\ ExpectedMatches(q) = {}) =>
            /\ ~readOut.isError
            /\ CarriesQueryNotFound
            /\ ~CarriesMatchedMessageIndex
            /\ readOut.args.allMatches => readOut.kind = "noMatches" /\ readOut.totalMatches = 0
       /\ (NonEmptyQuery(q) /\ ExpectedMatches(q) # {}) =>
            /\ ~readOut.isError
            /\ ~CarriesQueryNotFound
       /\ ~NonEmptyQuery(q) =>
            /\ ~CarriesQueryNotFound
            /\ ~CarriesMatchedMessageIndex

\* "jwt you" asked of a session where one message has "jwt" and another "you"
C13_Witness ==
  /\ readOut.kind = "messages"
  /\ readOut.args.query = QueryJwtYou
  /\ session.messages = << TextJwt, TextOther >>
  /\ readOut.queryNotFound
  /\ readOut.matchedMessageIndex = Undefined

\* C13 as stated: every supplied query, the empty string included, that no
\* message satisfies gives queryNotFound.
C13_AsStated ==
  (Responded /\ readOut.args.query # NoQuery /\ ExpectedMatches(readOut.args.query) = {}) =>
    CarriesQueryNotFound

\* ---- lookup failures
LookupFailed == session.lookup \in { "noParser", "noSession" }

\* C14: a request for an agent without a parser, or for a session getSession
\* does not find, is answered with an error result that carries no message
\* list and no match field; a request whose lookup succeeds is not.
C14_LookupFailureIsError ==
  readOut # NoReadOut =>
    /\ LookupFailed =>
         /\ readOut.kind = "error"
         /\ readOut.isError
         /\ DOMAIN readOut = { "kind", "isError", "args" }
    /\ ~LookupFailed => ~readOut.isError /\ readOut.kind # "error"

\* a query asked of a session that getSession does not find
C14_Witness ==
  /\ session.lookup = "noSession"
  /\ readOut.kind = "error"
  /\ readOut.isError
  /\ readOut.args.query = QueryAuth
  /\ readOut.args.allMatches

\* ---- maxMatches
\* the match indices the windows carry, window after window
RECURSIVE CarriedUpTo(_)
CarriedUpTo(n) ==
  IF n = 0 THEN << >> ELSE CarriedUpTo(n - 1) \o readOut.windows[n].matchIndices

\* C15: with maxMatches = N the windows are built around the N lowest matching
\* indices only; totalMatches counts every matching message, windowedMatches
\* is min(N, totalMatches), and the windows carry windowedMatches indices.
C15_MaxMatchesCap ==
  (readOut.kind = "windows" /\ readOut.args.maxMatches # Undefined) =>
    LET all == ExpectedMatches(readOut.args.query)
        N == readOut.args.maxMatches
        carried == CarriedUpTo(Len(readOut.windows))
    IN /\ readOut.totalMatches = Cardinality(all)
       /\ readOut.windowedMatches = Min(N, Cardinality(all))
       /\ Len(carried) = readOut.windowedMatches
       /\ \A k \in DOMAIN carried :
            /\ carried[k] \in all
            /\ Cardinality({ i \in all : i < carried[k] }) = k - 1

\* four matching messages, maxMatches = 2: the windows carry the first two
C15_Witness ==
  /\ readOut.kind = "windows"
  /\ readOut.args.maxMatches = 2
  /\ readOut.args.contextWindow = 1
  /\ readOut.totalMatches = 4
  /\ readOut.windowedMatches = 2
  /\ Len(readOut.windows) = 2
  /\ session.messages[1] = TextOther

\* the text of the document a result was made of, << >> when there is none
DocText(r) ==
  LET i == FindDoc(tier1Docs, r.id)
  IN IF i = 0 THEN << >> ELSE tier1Docs[i].text

\* the query word w stands at offset i of the lowercased text
OccursAt(text, w, i) ==
  /\ i + Len(w) <= Len(text)
  /\ \A k \in 1..Len(w) : LowerChar(text[i + k]) = w[k]

\* the offsets where some word of the query stands in the text
Occurrences(text, query) ==
  LET words == ClaimTokens(query)
  IN { i \in 0..(Len(text) - 1) : \E k \in DOMAIN words : OccursAt(text, words[k], i) }

\* the results made of a document whose text is part of the state (the others
\* are made of a document known by its length, and carry no snippet fields)
WithSnippets == { a \in DOMAIN out.results : "snippets" \in DOMAIN out.results[a] }

\* the returned snippets that are centered on a match (all but the fallback)
Centered(r) == { n \in DOMAIN r.snippets : r.snippets[n].pos # NotFound }

\* C16: the centers of any two snippets of a result are at least
\* 2 * contextChars apart, so their windows [center - contextChars,
\* center + contextChars) are disjoint, and the first snippet is centered on
\* the smallest recorded match offset (the first exact occurrence of a query
\* word when there is one).
C16_SnippetsApart ==
  out # NoOut =>
    \A a \in WithSnippets :
      LET r == out.results[a]
          sn == r.snippets
          occ == Occurrences(DocText(r), out.options.query)
      IN /\ \A m, n \in Centered(r) :
              m < n =>
                /\ sn[n].pos - sn[m].pos >= 2 * ContextChars
                /\ sn[m].pos + ContextChars <= sn[n].pos - ContextChars
         /\ r.positions # << >> =>
              /\ Centered(r) = DOMAIN sn
              /\ sn # << >>
              /\ \A k \in DOMAIN r.positions : sn[1].pos <= r.positions[k]
              /\ \E k \in DOMAIN r.positions : sn[1].pos = r.positions[k]
         /\ (occ # {} /\ r.matchCount < MAX_MATCH_POSITIONS) =>
              /\ sn # << >>
              /\ sn[1].pos \in occ
              /\ \A i \in occ : sn[1].pos <= i

\* C16 witness: a result with two snippets exactly 2 * contextChars apart
C16_Witness ==
  /\ out # NoOut
  /\ \E a \in WithSnippets :
       /\ Len(out.results[a].snippets) >= 2
       /\ out.results[a].snippets[2].pos - out.results[a].snippets[1].pos = 2 * ContextChars

\* the maxSnippets a call asked for: options.maxSnippets, 3 when unset
AskedSnippets ==
  IF out.options.maxSnippets = Undefined THEN DefaultMaxSnippets ELSE out.options.maxSnippets

\* C17: for every text, query and maxSnippets passed to search(), each result
\* carries no more than maxSnippets snippets.
C17_AtMostMaxSnippets ==
  out # NoOut =>
    \A a \in WithSnippets : Len(out.results[a].snippets) <= AskedSnippets

\* the occurrences the exact phase is to record: a query word and an offset
\* where it stands in the text
ExactHits(text, query) ==
  LET words == ClaimTokens(query)
  IN { h \in (DOMAIN words) \X (0..(Len(text) - 1)) : OccursAt(text, words[h[1]], h[2]) }

\* the occurrences the fuzzy phase is to record: a query word and a word of
\* the text at most 2 apart in length and in edit distance
FuzzyHits(text, query) ==
  LET textWords == Split(ToLowerCase(text))
      words == ClaimTokens(query)
  IN { h \in (DOMAIN words) \X (DOMAIN textWords) :
         /\ Abs(Len(textWords[h[2]]) - Len(words[h[1]])) <= 2
         /\ EditDistance(textWords[h[2]], words[h[1]]) <= 2 }

\* no two occurrences of one query word overlap in the text
NoOverlap(text, query) ==
  LET words == ClaimTokens(query)
      hits == ExactHits(text, query)
  IN \A h \in hits :
       \A d \in 1..(Len(words[h[1]]) - 1) : << h[1], h[2] + d >> \notin hits

\* the raw occurrences of the claim: the exact ones, the fuzzy ones when there
\* is no exact one
RawOccurrences(text, query) ==
  LET hits == ExactHits(text, query)
  IN IF hits # {} THEN Cardinality(hits) ELSE Cardinality(FuzzyHits(text, query))

\* C18: matchCount is the number of raw occurrences the exact or the fuzzy
\* phase recorded, an offset hit by several query words counted once per word;
\* it is the same for every maxSnippets, and it is 0 exactly when no position
\* was recorded (the fallback snippet or the empty text).
C18_MatchCountRaw ==
  out # NoOut =>
    \A a \in WithSnippets :
      LET r == out.results[a]
          text == DocText(r)
          query == out.options.query
          apart == NoOverlap(text, query)
          raw == RawOccurrences(text, query)
      IN /\ (text # << >> /\ apart /\ raw <= MAX_MATCH_POSITIONS) => r.matchCount = raw
         /\ ~apart => r.matchCount >= Len(r.positions)
         /\ \A ms \in { 1, 3, 5 } :
              ExtractSnippets(text, query, ms, ContextChars).matchCount = r.matchCount
         /\ r.matchCount = 0 <=> r.positions = << >>
         /\ r.matchCount = 0 <=> Centered(r) = {}
         /\ text = << >> => r.matchCount = 0 /\ r.snippets = << >>

\* C18 witness: a result whose matchCount exceeds the number of distinct
\* offsets, which exceeds the number of snippets
C18_Witness ==
  /\ out # NoOut
  /\ \E a \in WithSnippets :
       /\ out.results[a].matchCount > Len(out.results[a].positions)
       /\ Len(out.results[a].positions) > Len(out.results[a].snippets)
       /\ Len(out.results[a].snippets) > 1

\* C19: matchedText of every result is the text of its first snippet when it
\* has a snippet, and the empty string when it has none.
C19_MatchedTextFirstSnippet ==
  out # NoOut =>
    \A a \in WithSnippets :
      LET r == out.results[a]
      IN /\ r.snippets # << >> => r.matchedText = r.snippets[1].text
         /\ r.snippets = << >> => r.matchedText = << >>

\* C19 witness: a result with several snippets whose matchedText is not
\* empty and differs from the text of its second snippet
C19_Witness ==
  /\ out # NoOut
  /\ \E a \in WithSnippets :
       /\ Len(out.results[a].snippets) > 1
       /\ out.results[a].matchedText # << >>
       /\ out.results[a].snippets[2].text # out.results[a].matchedText

\* the hits of the call that pass the date, type and project filters
BeforeMinMessages ==
  FilterProject(FilterType(FilterDate(IndexSearch(tier1Index, out.options), out.options),
                           out.options), out.options)

\* the messageCount of the document of a hit, Undefined when it has none
MessageCountOf(h) ==
  IF \E i \in DOMAIN tier1Docs : tier1Docs[i].id = h.id
  THEN tier1Docs[CHOOSE i \in DOMAIN tier1Docs : tier1Docs[i].id = h.id].messageCount
  ELSE Undefined

\* the hits the claim lets through: every one when minMessages is unset, else
\* those without messageCount or with at least minMessages messages
Eligible ==
  { k \in DOMAIN BeforeMinMessages :
      \/ out.options.minMessages = Undefined
      \/ MessageCountOf(BeforeMinMessages[k]) = Undefined
      \/ MessageCountOf(BeforeMinMessages[k]) >= out.options.minMessages }

AskedLimit == IF out.options.limit = Undefined THEN DefaultLimit ELSE out.options.limit

\* C20: with minMessages = m a hit is returned only if its document has no
\* messageCount or has messageCount >= m; a document without messageCount is
\* never excluded; with minMessages unset no hit is excluded for its message
\* count (the hits let through are cut by limit only).
C20_MinMessages ==
  out # NoOut =>
    /\ out.options.minMessages # Undefined =>
         \A a \in DOMAIN out.results :
           \/ out.results[a].messageCount = Undefined
           \/ out.results[a].messageCount >= out.options.minMessages
    /\ Len(out.results) = Min(AskedLimit, Cardinality(Eligible))
    /\ \A a \in DOMAIN out.results :
         \E k \in Eligible : BeforeMinMessages[k].id = out.results[a].id
    /\ Len(out.results) < AskedLimit =>
         \A k \in Eligible :
           \E a \in DOMAIN out.results : out.results[a].id = BeforeMinMessages[k].id

\* C20 witness: with minMessages = 5 the results hold a document without
\* messageCount and one with 5 messages, and a hit with fewer messages is
\* left out though the limit is not reached
C20_Witness ==
  /\ out # NoOut
  /\ out.options.minMessages = 5
  /\ \E a \in DOMAIN out.results : out.results[a].messageCount = Undefined
  /\ \E a \in DOMAIN out.results : out.results[a].messageCount = 5
  /\ Len(out.results) < AskedLimit
  /\ \E k \in DOMAIN BeforeMinMessages :
       /\ MessageCountOf(BeforeMinMessages[k]) \in 1..4
       /\ \A a \in DOMAIN out.results : out.results[a].id # BeforeMinMessages[k].id

\* the indexed documents that hold the query of the call
QueryHits == { i \in DOMAIN tier1Docs : out.options.query \in tier1Docs[i].terms }

\* the result list holds the document d
Returned(d) == \E a \in DOMAIN out.results : out.results[a].id = d.id

\* C21: with dateFrom and/or dateTo set, a document with timestamp t is
\* returned only if dateFrom <= t <= dateTo (a missing bound not constraining),
\* and a document without timestamp is never excluded by the date filter.
C21_DateRangeInclusive ==
  out # NoOut =>
    LET from == out.options.dateFrom
        to == out.options.dateTo
    IN \A i \in QueryHits :
         LET t == tier1Docs[i].timestamp
         IN /\ (Returned(tier1Docs[i]) /\ t # Undefined) =>
                 /\ from # Undefined => from <= t
                 /\ to # Undefined => t <= to
            /\ t = Undefined => Returned(tier1Docs[i])

\* the document a result was made of
DocOf(r) == tier1Docs[CHOOSE i \in DOMAIN tier1Docs : tier1Docs[i].id = r.id]

\* C22: every result satisfies each supplied filter: its agent is among the
\* requested ones (no constraint for "all"), its type, as stored with the
\* document, is among the requested types, and its project is absent or
\* contains the project filter, letter case ignored.
C22_FiltersHold ==
  out # NoOut =>
    \A a \in DOMAIN out.results :
      LET r == out.results[a]
          o == out.options
      IN /\ \E i \in DOMAIN tier1Docs : tier1Docs[i].id = r.id
         /\ r.agent = DocOf(r).agent
         /\ r.type = DocOf(r).type
         /\ r.project = DocOf(r).project
         /\ o.agent # << "all" >> => \E k \in DOMAIN o.agent : o.agent[k] = r.agent
         /\ o.type # << >> => \E k \in DOMAIN o.type : o.type[k] = r.type
         /\ o.project # << >> =>
              \/ r.project = << >>
              \/ IsSubstring(ToLowerCase(o.project), ToLowerCase(r.project))

\* C22 witness: a call with the three filters set returned a result with a
\* project and one without, while a document that holds the query was left out
C22_Witness ==
  /\ out # NoOut
  /\ out.options.agent # << "all" >>
  /\ out.options.type # << >>
  /\ out.options.project # << >>
  /\ \E a \in DOMAIN out.results :
       out.results[a].project # << >> /\ out.results[a].project # out.options.project
  /\ \E a \in DOMAIN out.results : out.results[a].project = << >>
  /\ \E i \in QueryHits : ~Returned(tier1Docs[i])

\* the query word w is within edit distance 2 of a word of the text
FuzzyClose(text, w) ==
  \E m \in DOMAIN Tokenize(text) :
    /\ Abs(Len(Tokenize(text)[m]) - Len(w)) <= 2
    /\ EditDistance(Tokenize(text)[m], w) <= 2

\* the query word w stands somewhere in the lowercased text
OccursExactly(text, w) == \E i \in 0..(Len(text) - 1) : OccursAt(text, w, i)

\* C23: the fuzzy scan runs only when the exact scan recorded nothing.  When
\* a query word stands in the text, every recorded position is an exact
\* occurrence of a query word and a misspelled word contributes no position
\* and no match term; when none does, a word of the text within edit distance
\* 2 of a query word yields a snippet centered on a match, with non-empty text.
C23_FuzzyOnlyWithoutExact ==
  out # NoOut =>
    \A a \in WithSnippets :
      LET r == out.results[a]
          text == DocText(r)
          words == ClaimTokens(out.options.query)
          occ == Occurrences(text, out.options.query)
      IN /\ occ # {} =>
              /\ \A k \in DOMAIN r.positions : r.positions[k] \in occ
              /\ r.matchCount <= Cardinality(ExactHits(text, out.options.query))
              /\ \A n \in DOMAIN r.snippets :
                   /\ r.snippets[n].pos \in occ
                   /\ \A t \in DOMAIN r.snippets[n].matchTerms :
                        OccursExactly(text, r.snippets[n].matchTerms[t])
         /\ (occ = {} /\ \E k \in DOMAIN words : FuzzyClose(text, words[k])) =>
              /\ r.matchCount > 0
              /\ r.snippets # << >>
              /\ r.snippets[1].pos # NotFound
              /\ r.snippets[1].text # << >>
              /\ r.snippets[1].matchTerms # << >>

\* C23 witness: the query holds a word of the text and a misspelled word
\* that is within edit distance 2 of another word of the text
C23_Witness ==
  /\ out # NoOut
  /\ \E a \in WithSnippets :
       LET text == DocText(out.results[a])
           words == ClaimTokens(out.options.query)
       IN /\ \E k \in DOMAIN words : OccursExactly(text, words[k])
          /\ \E k \in DOMAIN words :
               ~OccursExactly(text, words[k]) /\ FuzzyClose(text, words[k])
          /\ out.results[a].matchCount = 1

\* offset p of the text starts a word as tokenize() gives them: a run of at
\* least two characters that are no separators, after a separator or at the
\* start of the text
TokenStart(text, p) ==
  /\ p + 2 <= Len(text)
  /\ ~IsSeparator(text[p + 1])
  /\ ~IsSeparator(text[p + 2])
  /\ p > 0 => IsSeparator(text[p])

\* C24: the fuzzy phase compares the query words against the words of the
\* text as tokenize() gives them, so every position it records is the start
\* of a word of at least two characters, never an empty or one-character
\* token.
C24_FuzzyOnTokens ==
  out # NoOut =>
    \A a \in WithSnippets :
      LET r == out.results[a]
      IN Occurrences(DocText(r), out.options.query) = {} =>
           \A k \in DOMAIN r.positions : TokenStart(DocText(r), r.positions[k])

\* the returned messages flagged matched: true
Flagged == { i \in DOMAIN readOut.messages : readOut.messages[i].matched }

\* C25: in single-match mode, whenever the matched message is among the
\* returned messages, exactly one of them is flagged matched and the reported
\* matchedMessageIndex equals its index field.
C25_MatchIndexNumbering ==
  (readOut.kind = "messages" /\ Flagged # {}) =>
    /\ Cardinality(Flagged) = 1
    /\ \A i \in Flagged : readOut.matchedMessageIndex = readOut.messages[i].index

\* C26: in all-matches mode a message of a returned window is flagged
\* matched: true if and only if it satisfies the match predicate, for every
\* maxMatches, also one below the number of matching messages.
C26_FlagIffMatches ==
  readOut.kind = "windows" =>
    \A n \in DOMAIN readOut.windows :
      \A i \in DOMAIN readOut.windows[n].messages :
        LET m == readOut.windows[n].messages[i]
        IN m.matched <=> Matches(readOut.args.query, session.messages[m.index + 1])

\* C27: the number of recorded match positions, and so matchCount, never
\* exceeds MAX_MATCH_POSITIONS = 100, for any text and any number of query
\* words, in the exact phase and in the fuzzy phase.
C27_MatchCountCapped ==
  out # NoOut =>
    \A a \in WithSnippets : out.results[a].matchCount <= MAX_MATCH_POSITIONS

\* a call is inside buildTier1, at one of its awaits
Building(c) == calls[c].pc \in { "avail", "docs", "mem", "plan" }

\* C28: in every reachable state, also while builds are in progress: if
\* tier1Built is true the index is not null, and the index and the document
\* list hold the documents of one build, so every id of the index resolves
\* to a document of the list (and so does every returned result).
C28_IndexAndDocsAgree ==
  /\ tier1Built => ~tier1Index.isNull
  /\ tier1Index.isNull => tier1Docs = << >> /\ ~tier1Built
  /\ tier1Index.docs = tier1Docs
  /\ \A i \in DOMAIN tier1Index.docs :
       \E j \in DOMAIN tier1Docs : tier1Docs[j].id = tier1Index.docs[i].id
  /\ out # NoOut =>
       \A a \in DOMAIN out.results :
         \E j \in DOMAIN tier1Docs : tier1Docs[j].id = out.results[a].id

\* C28 witness: the index is built and holds documents while another call
\* is still inside its own build
C28_Witness ==
  /\ tier1Built
  /\ tier1Index.docs # << >>
  /\ \E c \in Calls : Building(c)

\* the document d is in the index and in the document list
Indexed(d) ==
  /\ \E m \in DOMAIN tier1Index.docs : tier1Index.docs[m].id = d.id
  /\ \E m \in DOMAIN tier1Docs : tier1Docs[m].id = d.id

\* C29: when the enumeration of a source throws partway, what the source had
\* yielded before the throw (its searchable documents, and its memory files
\* when the plan listing threw) is in the built index and is returned by a
\* search for a term it holds.
C29_YieldedBeforeThrowKept ==
  assigns >= 1 =>
    \A i \in DOMAIN Parsers :
      EnumFault(i) =>
        \A n \in DOMAIN Contribution(i) :
          /\ Indexed(Contribution(i)[n])
          /\ (out # NoOut /\ out.options.query \in Contribution(i)[n].terms) =>
               Returned(Contribution(i)[n])

\* C29 witness: a generator threw after its first document and the call is
\* returning a result made of that document
C29_Witness ==
  /\ out # NoOut
  /\ \E i \in DOMAIN Parsers :
       /\ src[i].fault = "docsThrowMid"
       /\ Len(Contribution(i)) = 1
       /\ Returned(Contribution(i)[1])
       /\ \E a \in DOMAIN out.results : out.results[a].agent = Parsers[i]

\* C30: levenshteinDistance(a, b) is the Levenshtein distance of a and b, the
\* empty string included; it is symmetric, 0 exactly when a = b, at least the
\* difference of the lengths and at most the greater length.
C30_LevenshteinStandard ==
  lev.dist # Undefined =>
    /\ lev.dist = EditDistance(lev.a, lev.b)
    /\ lev.dist = LevenshteinDistance(lev.b, lev.a)
    /\ lev.dist = 0 <=> lev.a = lev.b
    /\ lev.dist >= Abs(Len(lev.a) - Len(lev.b))
    /\ lev.dist <= Max(Len(lev.a), Len(lev.b))

\* C30 witness: two strings of three characters that differ at every
\* position and are two edits apart
C30_Witness ==
  /\ lev.dist = 2
  /\ Len(lev.a) = 3
  /\ Len(lev.b) = 3
  /\ \A i \in 1..3 : lev.a[i] # lev.b[i]

====
